---- MODULE Spec2Model ----
(***************************************************************************)
(* Model of the in-memory BlockchainTree                                   *)
(* (crates/executor/src/blockchain_tree/mod.rs) over a database of         *)
(* canonical headers.  Chain and BlockIndices live in sibling modules      *)
(* (chain.rs, block_indices.rs); their operations are modelled from        *)
(* their described contracts and from the assertions of tests::sanity_path.*)
(*                                                                         *)
(* Model of the trie loader DBTrieLoader                                   *)
(* (crates/storage/provider/src/trie/mod.rs) over the hashed state, the    *)
(* change sets, the two trie tables and the persisted ProofCheckpoint.     *)
(* A Patricia trie is identified with its key -> value content: the root   *)
(* hash is an injective image of the content, so a root is written as the  *)
(* content it commits to, and the trie tables are followed at the level of *)
(* the root rows the loader reads, writes and deletes.                     *)
(***************************************************************************)
EXTENDS Integers, Sequences, FiniteSets, TLC

VARIABLES
    chains,                 \* BlockchainTree.chains : ChainId -> Chain
    chain_id_generator,     \* BlockchainTree.chain_id_generator
    block_indices,          \* BlockchainTree.block_indices
    num_of_side_chain_max_size,
    finalization_window,
    db,                     \* externals.db: committed content
    result,                 \* last call and what it returned
    tables,                 \* DBTrieLoader.tx: the tables the trie loader works on
    loader,                 \* commit_threshold and current of the last loader
    progress,               \* last trie loader call and what it returned
    query                   \* last read of the trie tables and what it returned

tree_vars == <<chains, chain_id_generator, block_indices, num_of_side_chain_max_size,
               finalization_window, db, result>>

trie_vars == <<tables, loader, progress, query>>

vars == <<chains, chain_id_generator, block_indices, num_of_side_chain_max_size,
          finalization_window, db, result, tables, loader, progress, query>>

----------------------------------------------------------------------------
\* Bounds

\* a call that would hand out more chain ids than this is not made
MaxChainId == 3

\* the highest block number finalize_block / update_canonical_hashes are called with
MaxFinalize == 4

\* the number of transitions executed on the hashed state
MaxTransition == 2

----------------------------------------------------------------------------
\* Sealed blocks: a hash identifies a block; number and parent_hash are
\* immutable header fields.

\* H256::zero(), the Default hash
ZeroHash == "zero"

\* canonical blocks in the database at construction
GenesisBlocks == {"g0", "g1", "g2"}

\* blocks not in the database at construction: a child of g2 with two
\* children of its own, and a competitor of g2
PendingBlocks == {"a3", "a4", "d4", "e2"}

Blocks == GenesisBlocks \cup PendingBlocks

\* the blocks insert_block is called with
OfferedBlocks == PendingBlocks \cup {"g2"}

\* the hashes make_canonical is called with
OfferedHashes == PendingBlocks \cup {"g2"}

\* the block numbers announced as finalized: the initial canonical tip and above
FinalizedNumbers == 2..MaxFinalize

number(h) ==
    CASE h = "g0" -> 0
      [] h = "g1" -> 1
      [] h \in {"g2", "e2"} -> 2
      [] h = "a3" -> 3
      [] h \in {"a4", "d4"} -> 4
      [] OTHER -> 0

parent_hash(h) ==
    CASE h = "g1" -> "g0"
      [] h \in {"g2", "e2"} -> "g1"
      [] h = "a3" -> "g2"
      [] h \in {"a4", "d4"} -> "a3"
      [] OTHER -> ZeroHash

----------------------------------------------------------------------------
\* Generic helpers

Min(S) == CHOOSE x \in S : \A y \in S : x <= y
Max(S) == CHOOSE x \in S : \A y \in S : y <= x

Restrict(f, S) == [x \in S |-> f[x]]

Range(f) == {f[x] : x \in DOMAIN f}

EmptyMap == <<>>

\* map.insert(k, v)
MapInsert(f, k, v) == [x \in (DOMAIN f) \cup {k} |-> IF x = k THEN v ELSE f[x]]

\* map.remove(k)
MapRemove(f, k) == [x \in (DOMAIN f) \ {k} |-> f[x]]

\* numbers of a BTreeMap in ascending order
RECURSIVE SortedKeys(_)
SortedKeys(S) == IF S = {} THEN <<>> ELSE <<Min(S)>> \o SortedKeys(S \ {Min(S)})

----------------------------------------------------------------------------
\* ForkBlock and Chain

ForkBlock(n, h) == [number |-> n, hash |-> h]

DefaultForkBlock == ForkBlock(0, ZeroHash)

\* Chain { blocks: number -> block, changesets, fork_block }
MkChain(blocks, changesets, fork_block) ==
    [blocks |-> blocks, changesets |-> changesets, fork_block |-> fork_block]

ChainNumbers(c) == DOMAIN c.blocks

ChainHashes(c) == Range(c.blocks)

\* Chain::first
first(c) == c.blocks[Min(DOMAIN c.blocks)]

\* Chain::tip
tip(c) == c.blocks[Max(DOMAIN c.blocks)]

\* the ExecutionResult of block h is identified by h
ExecutionResult(h) == h

\* Chain::new_chain_fork: a chain whose sole entry is the block, anchored at
\* the block's parent inside the chain it forks from
new_chain_fork(block) ==
    MkChain(number(block) :> block, <<ExecutionResult(block)>>,
            ForkBlock(number(block) - 1, parent_hash(block)))

\* Chain::new_canonical_fork: a chain whose sole entry is the block, anchored
\* at the sealed parent header
new_canonical_fork(block) ==
    MkChain(number(block) :> block, <<ExecutionResult(block)>>,
            ForkBlock(number(block) - 1, parent_hash(block)))

\* Chain::append_block after successful validation and execution
append_block(c, block) ==
    MkChain(MapInsert(c.blocks, number(block), block),
            Append(c.changesets, ExecutionResult(block)), c.fork_block)

\* Chain::new over rows taken from the database (ascending, non-empty)
ChainNew(rows) ==
    LET lo == Min(DOMAIN rows)
    IN MkChain(rows, [i \in 1..Cardinality(DOMAIN rows) |->
                        ExecutionResult(rows[SortedKeys(DOMAIN rows)[i]])],
               ForkBlock(lo - 1, parent_hash(rows[lo])))

\* Chain::split_at_number: <<lower, upper>> as Option = sequence of length 0 or 1
split_at_number(c, n) ==
    IF n >= Max(DOMAIN c.blocks) THEN <<(<<c>>), <<>>>>
    ELSE IF n < Min(DOMAIN c.blocks) THEN <<(<<>>), <<c>>>>
    ELSE LET lo == {k \in DOMAIN c.blocks : k <= n}
             hi == {k \in DOMAIN c.blocks : k > n}
             nlo == Cardinality(lo)
         IN << <<MkChain(Restrict(c.blocks, lo), SubSeq(c.changesets, 1, nlo),
                         c.fork_block)>>,
               <<MkChain(Restrict(c.blocks, hi),
                         SubSeq(c.changesets, nlo + 1, Len(c.changesets)),
                         ForkBlock(n, c.blocks[n]))>> >>

\* Chain::split_at_block_hash
split_at_block_hash(c, h) ==
    IF h \notin ChainHashes(c) THEN <<(<<>>), <<c>>>>
    ELSE split_at_number(c, CHOOSE k \in DOMAIN c.blocks : c.blocks[k] = h)

\* Chain::append_chain: concatenates when other is anchored at self's tip,
\* otherwise leaves self as it is
append_chain(c, other) ==
    IF other.fork_block.hash # tip(c) THEN c
    ELSE MkChain([k \in (DOMAIN c.blocks) \cup (DOMAIN other.blocks) |->
                     IF k \in DOMAIN other.blocks THEN other.blocks[k] ELSE c.blocks[k]],
                 c.changesets \o other.changesets, c.fork_block)

----------------------------------------------------------------------------
\* BlockIndices { blocks_to_chain, fork_to_child, canonical_chain,
\*                last_finalized_block, num_of_additional_canonical_block_hashes }

\* BlockIndices::new
BlockIndicesNew(last_finalized, num_additional, canonical) ==
    [blocks_to_chain |-> EmptyMap,
     fork_to_child |-> EmptyMap,
     canonical_chain |-> canonical,
     last_finalized_block |-> last_finalized,
     num_of_additional_canonical_block_hashes |-> num_additional]

contains_block_hash(bi, h) == h \in DOMAIN bi.blocks_to_chain

\* Option<ChainId> as a set with at most one element
get_blocks_chain_id(bi, h) ==
    IF h \in DOMAIN bi.blocks_to_chain THEN {bi.blocks_to_chain[h]} ELSE {}

\* Option<BlockHash> as a set with at most one element
canonical_hash(bi, n) ==
    IF n \in DOMAIN bi.canonical_chain THEN {bi.canonical_chain[n]} ELSE {}

is_block_hash_canonical(bi, h) == h \in Range(bi.canonical_chain)

\* last entry of the canonical window, (0, zero) when the window is empty
last_key_value_or_default(canonical) ==
    IF DOMAIN canonical = {} THEN DefaultForkBlock
    ELSE ForkBlock(Max(DOMAIN canonical), canonical[Max(DOMAIN canonical)])

canonical_tip(bi) == last_key_value_or_default(bi.canonical_chain)

\* fork_to_child[parent] += child
ForkAdd(f2c, parent, child) ==
    MapInsert(f2c, parent, (IF parent \in DOMAIN f2c THEN f2c[parent] ELSE {}) \cup {child})

\* BlockIndices::insert_chain: index every block, register the fork edge
BI_insert_chain(bi, chain_id, chain) ==
    [bi EXCEPT
       !.blocks_to_chain =
           [h \in (DOMAIN bi.blocks_to_chain) \cup ChainHashes(chain) |->
               IF h \in ChainHashes(chain) THEN chain_id ELSE bi.blocks_to_chain[h]],
       !.fork_to_child = ForkAdd(bi.fork_to_child, chain.fork_block.hash, first(chain))]

\* BlockIndices::remove_block: forget the block; the chains hanging on it are
\* returned (their first block leaves blocks_to_chain)
BI_remove_block(bi, h) ==
    LET b2c == MapRemove(bi.blocks_to_chain, h)
        kids == IF h \in DOMAIN bi.fork_to_child THEN bi.fork_to_child[h] ELSE {}
        lose == {b2c[k] : k \in kids \cap DOMAIN b2c}
    IN [bi |-> [bi EXCEPT !.blocks_to_chain = Restrict(b2c, (DOMAIN b2c) \ kids),
                          !.fork_to_child = MapRemove(bi.fork_to_child, h)],
        lose |-> lose]

RECURSIVE BI_remove_blocks(_, _, _)
BI_remove_blocks(bi, hashes, lose) ==
    IF hashes = <<>> THEN [bi |-> bi, lose |-> lose]
    ELSE LET r == BI_remove_block(bi, Head(hashes))
         IN BI_remove_blocks(r.bi, Tail(hashes), lose \cup r.lose)

\* blocks of a chain in ascending number order
ChainBlockSeq(c) ==
    [i \in 1..Cardinality(DOMAIN c.blocks) |-> c.blocks[SortedKeys(DOMAIN c.blocks)[i]]]

\* BlockIndices::remove_chain: inverse of insert_chain, returns orphaned children
BI_remove_chain(bi, chain) == BI_remove_blocks(bi, ChainBlockSeq(chain), {})

\* BlockIndices::canonicalize_blocks: the promoted blocks replace the canonical
\* entries from their first number on and leave the pending indices
BI_canonicalize_blocks(bi, blocks) ==
    IF DOMAIN blocks = {} THEN bi
    ELSE
    LET first_number == Min(DOMAIN blocks)
        kept == {k \in DOMAIN bi.canonical_chain : k < first_number}
        hs == Range(blocks)
        f2c == bi.fork_to_child
        f2c1 == [p \in {q \in DOMAIN f2c : f2c[q] \ {h \in hs : parent_hash(h) = q} # {}} |->
                    f2c[p] \ {h \in hs : parent_hash(h) = p}]
    IN [bi EXCEPT
          !.canonical_chain = [k \in kept \cup DOMAIN blocks |->
                                  IF k \in DOMAIN blocks THEN blocks[k]
                                  ELSE bi.canonical_chain[k]],
          !.blocks_to_chain = Restrict(bi.blocks_to_chain, (DOMAIN bi.blocks_to_chain) \ hs),
          !.fork_to_child = f2c1]

\* a - b on u64 without underflow
saturating_sub(a, b) == IF a >= b THEN a - b ELSE 0

\* finalize_canonical_blocks that leaves the window as it was
BI_finalize_canonical_blocks_keep_window(bi, finalized_block) ==
    LET finalized_blocks == {bi.canonical_chain[k] :
                                k \in {j \in DOMAIN bi.canonical_chain : j < finalized_block}}
        kids == UNION {bi.fork_to_child[h] : h \in finalized_blocks \cap DOMAIN bi.fork_to_child}
        lose == {bi.blocks_to_chain[k] : k \in kids \cap DOMAIN bi.blocks_to_chain}
    IN [bi |-> [bi EXCEPT
                  !.fork_to_child = Restrict(bi.fork_to_child,
                        (DOMAIN bi.fork_to_child) \ finalized_blocks),
                  !.blocks_to_chain = Restrict(bi.blocks_to_chain,
                        (DOMAIN bi.blocks_to_chain) \ kids),
                  !.last_finalized_block = finalized_block],
        lose |-> lose]

\* BlockIndices::finalize_canonical_blocks: chains anchored on a canonical block
\* below the finalized one are lost; the window keeps the finalized block and
\* num_of_additional_canonical_block_hashes entries below it
BI_finalize_canonical_blocks(bi, finalized_block) ==
    LET finalized_blocks == {bi.canonical_chain[k] :
                                k \in {j \in DOMAIN bi.canonical_chain : j < finalized_block}}
        remove_until == saturating_sub(finalized_block,
                                       bi.num_of_additional_canonical_block_hashes)
        kids == UNION {bi.fork_to_child[h] : h \in finalized_blocks \cap DOMAIN bi.fork_to_child}
        lose == {bi.blocks_to_chain[k] : k \in kids \cap DOMAIN bi.blocks_to_chain}
    IN [bi |-> [bi EXCEPT
                  !.canonical_chain = Restrict(bi.canonical_chain,
                        {k \in DOMAIN bi.canonical_chain : k >= remove_until}),
                  !.fork_to_child = Restrict(bi.fork_to_child,
                        (DOMAIN bi.fork_to_child) \ finalized_blocks),
                  !.blocks_to_chain = Restrict(bi.blocks_to_chain,
                        (DOMAIN bi.blocks_to_chain) \ kids),
                  !.last_finalized_block = finalized_block],
        lose |-> lose]

\* BlockIndices::update_block_hashes: the window is replaced; every old entry
\* the new window does not repeat is removed together with its fork edges
BI_update_block_hashes(bi, hashes) ==
    LET old == bi.canonical_chain
        gone == {k \in DOMAIN old : k \notin DOMAIN hashes \/ hashes[k] # old[k]}
        seq == [i \in 1..Cardinality(gone) |-> old[SortedKeys(gone)[i]]]
    IN BI_remove_blocks([bi EXCEPT !.canonical_chain = hashes], seq, {})

----------------------------------------------------------------------------
\* Database: CanonicalHeaders (with the block rows that go with them) and the
\* pipeline stage progress.  A Transaction works on a copy; only commit
\* publishes it, dropping it leaves the committed content as it was.

MkDb(canonical_headers, stage_progress) ==
    [canonical_headers |-> canonical_headers, stage_progress |-> stage_progress]

\* db.header(hash)
header(d, h) == IF h \in Range(d.canonical_headers) THEN {h} ELSE {}

\* cursor_read::<CanonicalHeaders>().walk_back(None).take(n)
walk_back_take(d, n) ==
    LET ks == DOMAIN d.canonical_headers
    IN Restrict(d.canonical_headers, {k \in ks : Cardinality({j \in ks : j > k}) < n})

\* tx.insert_block(block, chain_spec, changeset)
tx_insert_block(tx, block) ==
    [tx EXCEPT !.canonical_headers = MapInsert(@, number(block), block)]

\* tx.update_pipeline_stages(n)
update_pipeline_stages(tx, n) == [tx EXCEPT !.stage_progress = n]

\* tx.get_block_and_execution_range::<true>(chain_spec, from..): takes the rows
take_block_and_execution_range(tx, from) ==
    [tx |-> [tx EXCEPT !.canonical_headers =
                Restrict(@, {k \in DOMAIN tx.canonical_headers : k < from})],
     rows |-> Restrict(tx.canonical_headers,
                       {k \in DOMAIN tx.canonical_headers : k >= from})]

\* where a database call of commit_canonical / revert_canonical can fail
\* "revert": a call of revert_canonical fails (all of them have the same effect)
Failures == {"none", "revert", "insert_block", "update_pipeline_stages", "commit"}

RECURSIVE tx_insert_blocks(_, _)
tx_insert_blocks(tx, blocks) ==
    IF blocks = <<>> THEN tx
    ELSE tx_insert_blocks(tx_insert_block(tx, Head(blocks)), Tail(blocks))

\* commit_canonical without the transaction: every write is visible at once
commit_canonical_unwrapped(d, chain, fail) ==
    LET new_tip == number(tip(chain))
        bs == ChainBlockSeq(chain)
        tx1 == tx_insert_blocks(d, IF fail = "insert_block"
                                   THEN SubSeq(bs, 1, Len(bs) - 1) ELSE bs)
        tx2 == update_pipeline_stages(tx1, new_tip)
    IN IF fail = "insert_block" THEN [db |-> tx1, ret |-> "Err(VerificationFailed)"]
       ELSE IF fail = "update_pipeline_stages"
            THEN [db |-> tx1, ret |-> "Err(VerificationFailed)"]
       ELSE IF fail = "commit" THEN [db |-> tx2, ret |-> "Err(Database)"]
       ELSE [db |-> tx2, ret |-> "Ok"]

\* BlockchainTree::commit_canonical.  fail names the call that fails; a failing
\* insert_block is the one of the chain's last block.
commit_canonical(d, chain, fail) ==
    LET tx0 == d
        new_tip == number(tip(chain))
        bs == ChainBlockSeq(chain)
        tx1 == tx_insert_blocks(tx0, IF fail = "insert_block"
                                     THEN SubSeq(bs, 1, Len(bs) - 1) ELSE bs)
        tx2 == update_pipeline_stages(tx1, new_tip)
    IN IF fail = "insert_block" THEN [db |-> d, ret |-> "Err(VerificationFailed)"]
       ELSE IF fail = "update_pipeline_stages"
            THEN [db |-> d, ret |-> "Err(VerificationFailed)"]
       ELSE IF fail = "commit" THEN [db |-> d, ret |-> "Err(Database)"]
       ELSE [db |-> tx2, ret |-> "Ok"]

\* BlockchainTree::revert_canonical
revert_canonical(d, revert_until, fail) ==
    LET tx0 == d
        taken == take_block_and_execution_range(tx0, revert_until + 1)
        tx2 == update_pipeline_stages(taken.tx, revert_until)
    IN IF fail = "revert"
       THEN [db |-> d, ret |-> "Err(VerificationFailed)", rows |-> EmptyMap]
       ELSE [db |-> tx2, ret |-> "Ok", rows |-> taken.rows]

----------------------------------------------------------------------------
\* BlockchainTree

\* the tree's mutable fields as one value, threaded through a call
Tree == [chains |-> chains, chain_id_generator |-> chain_id_generator,
         block_indices |-> block_indices]

\* what consensus.pre_validate and the executor answer for a block
Outcomes == {"Ok", "ConsensusFailure", "ExecutionFailure"}

\* insert_chain that does not advance the generator
insert_chain_same_id(t, chain) ==
    [chains |-> MapInsert(t.chains, t.chain_id_generator, chain),
     chain_id_generator |-> t.chain_id_generator,
     block_indices |-> BI_insert_chain(t.block_indices, t.chain_id_generator, chain)]

\* BlockchainTree::insert_chain
insert_chain(t, chain) ==
    [chains |-> MapInsert(t.chains, t.chain_id_generator, chain),
     chain_id_generator |-> t.chain_id_generator + 1,
     block_indices |-> BI_insert_chain(t.block_indices, t.chain_id_generator, chain)]

\* the loop of BlockchainTree::canonical_fork: follow fork blocks from chain to
\* chain; {} when a chain id is unknown
RECURSIVE canonical_fork_walk(_, _)
canonical_fork_walk(t, chain_id) ==
    IF chain_id \notin DOMAIN t.chains THEN {}
    ELSE LET fork == t.chains[chain_id].fork_block
         IN IF fork.hash \in DOMAIN t.block_indices.blocks_to_chain
            THEN canonical_fork_walk(t, t.block_indices.blocks_to_chain[fork.hash])
            ELSE {fork}

\* BlockchainTree::canonical_fork, Option as a set
canonical_fork(t, chain_id) ==
    {f \in canonical_fork_walk(t, chain_id) :
        canonical_hash(t.block_indices, f.number) = {f.hash}}

\* fork_side_chain appending to the parent chain before the block is validated
fork_side_chain_append_first(t, block, chain_id, outcome) ==
    IF canonical_fork(t, chain_id) = {} \/ chain_id \notin DOMAIN t.chains
    THEN [tree |-> t, ret |-> "Err(ChainIdConsistency)"]
    ELSE LET parent_chain == t.chains[chain_id]
             chain_tip == tip(parent_chain)
             appended == [t EXCEPT !.chains =
                            MapInsert(@, chain_id, append_block(parent_chain, block))]
         IN IF chain_tip = parent_hash(block)
            THEN [tree |-> appended,
                  ret |-> IF outcome # "Ok" THEN "Err(" \o outcome \o ")" ELSE "Ok"]
            ELSE IF outcome # "Ok" THEN [tree |-> t, ret |-> "Err(" \o outcome \o ")"]
            ELSE [tree |-> insert_chain(t, new_chain_fork(block)), ret |-> "Ok"]

\* BlockchainTree::fork_side_chain
fork_side_chain(t, block, chain_id, outcome) ==
    IF canonical_fork(t, chain_id) = {} \/ chain_id \notin DOMAIN t.chains
    THEN [tree |-> t, ret |-> "Err(ChainIdConsistency)"]
    ELSE LET parent_chain == t.chains[chain_id]
             chain_tip == tip(parent_chain)
         IN IF outcome # "Ok" THEN [tree |-> t, ret |-> "Err(" \o outcome \o ")"]
            ELSE IF chain_tip = parent_hash(block)
            THEN [tree |-> [t EXCEPT !.chains =
                              MapInsert(@, chain_id, append_block(parent_chain, block))],
                  ret |-> "Ok"]
            ELSE [tree |-> insert_chain(t, new_chain_fork(block)), ret |-> "Ok"]

\* BlockchainTree::fork_canonical_chain
fork_canonical_chain(t, d, block, outcome) ==
    IF header(d, parent_hash(block)) = {}
    THEN [tree |-> t, ret |-> "Err(CanonicalChain)"]
    ELSE IF outcome # "Ok" THEN [tree |-> t, ret |-> "Err(" \o outcome \o ")"]
    ELSE [tree |-> insert_chain(t, new_canonical_fork(block)), ret |-> "Ok"]

\* the fields of ExecError::PendingBlockIsFinalized / PendingBlockIsInFuture
PendingBlockError(block, last_finalized) ==
    [block_number |-> number(block), block_hash |-> block, last_finalized |-> last_finalized]

\* a return value that carries no such fields
NoError == [block_number |-> 0, block_hash |-> ZeroHash, last_finalized |-> 0]

\* insert_block_admitted without the two look-ups of the block's own hash
insert_block_admitted_no_lookup(t, d, block, outcome) ==
    LET bi == t.block_indices
    IN IF get_blocks_chain_id(bi, parent_hash(block)) # {}
       THEN LET r == fork_side_chain(t, block, bi.blocks_to_chain[parent_hash(block)], outcome)
            IN [tree |-> r.tree, ret |-> IF r.ret = "Ok" THEN "Ok(true)" ELSE r.ret,
                err |-> NoError]
       ELSE IF {parent_hash(block)} = canonical_hash(bi, number(block) - 1)
       THEN LET r == fork_canonical_chain(t, d, block, outcome)
            IN [tree |-> r.tree, ret |-> IF r.ret = "Ok" THEN "Ok(true)" ELSE r.ret,
                err |-> NoError]
       ELSE [tree |-> t, ret |-> "Ok(false)", err |-> NoError]

\* insert_block_admitted treating an unknown parent as an error
insert_block_admitted_parent_required(t, d, block, outcome) ==
    LET r == insert_block_admitted_no_lookup(t, d, block, outcome)
        bi == t.block_indices
    IN IF contains_block_hash(bi, block) \/ canonical_hash(bi, number(block)) = {block}
       THEN [tree |-> t, ret |-> "Ok(true)", err |-> NoError]
       ELSE IF r.ret = "Ok(false)"
       THEN [tree |-> t, ret |-> "Err(CanonicalChain)", err |-> NoError]
       ELSE r

\* insert_block_with_senders once the block's number is admitted: known block,
\* side-chain parent, canonical parent, unknown parent
insert_block_admitted(t, d, block, outcome) ==
    LET bi == t.block_indices
    IN IF contains_block_hash(bi, block)
       THEN [tree |-> t, ret |-> "Ok(true)", err |-> NoError]
       ELSE IF canonical_hash(bi, number(block)) = {block}
       THEN [tree |-> t, ret |-> "Ok(true)", err |-> NoError]
       ELSE IF get_blocks_chain_id(bi, parent_hash(block)) # {}
       THEN LET r == fork_side_chain(t, block, bi.blocks_to_chain[parent_hash(block)], outcome)
            IN [tree |-> r.tree, ret |-> IF r.ret = "Ok" THEN "Ok(true)" ELSE r.ret,
                err |-> NoError]
       ELSE IF {parent_hash(block)} = canonical_hash(bi, number(block) - 1)
       THEN LET r == fork_canonical_chain(t, d, block, outcome)
            IN [tree |-> r.tree, ret |-> IF r.ret = "Ok" THEN "Ok(true)" ELSE r.ret,
                err |-> NoError]
       ELSE [tree |-> t, ret |-> "Ok(false)", err |-> NoError]

\* insert_block_with_senders looking the block up before it looks at its number
insert_block_with_senders_known_first(t, d, block, outcome, max_size) ==
    LET bi == t.block_indices
        last_finalized_block == bi.last_finalized_block
    IN IF contains_block_hash(bi, block) \/ canonical_hash(bi, number(block)) = {block}
       THEN [tree |-> t, ret |-> "Ok(true)", err |-> NoError]
       ELSE IF number(block) <= last_finalized_block
       THEN [tree |-> t, ret |-> "Err(PendingBlockIsFinalized)",
             err |-> PendingBlockError(block, last_finalized_block)]
       ELSE IF number(block) > last_finalized_block + max_size
       THEN [tree |-> t, ret |-> "Err(PendingBlockIsInFuture)",
             err |-> PendingBlockError(block, last_finalized_block)]
       ELSE insert_block_admitted(t, d, block, outcome)

\* insert_block_with_senders refusing the last admissible number as well
insert_block_with_senders_ge(t, d, block, outcome, max_size) ==
    LET bi == t.block_indices
        last_finalized_block == bi.last_finalized_block
    IN IF number(block) <= last_finalized_block
       THEN [tree |-> t, ret |-> "Err(PendingBlockIsFinalized)",
             err |-> PendingBlockError(block, last_finalized_block)]
       ELSE IF number(block) >= last_finalized_block + max_size
       THEN [tree |-> t, ret |-> "Err(PendingBlockIsInFuture)",
             err |-> PendingBlockError(block, last_finalized_block)]
       ELSE insert_block_admitted(t, d, block, outcome)

\* BlockchainTree::insert_block_with_senders
insert_block_with_senders(t, d, block, outcome, max_size) ==
    LET bi == t.block_indices
        last_finalized_block == bi.last_finalized_block
    IN IF number(block) <= last_finalized_block
       THEN [tree |-> t, ret |-> "Err(PendingBlockIsFinalized)",
             err |-> PendingBlockError(block, last_finalized_block)]
       ELSE IF number(block) > last_finalized_block + max_size
       THEN [tree |-> t, ret |-> "Err(PendingBlockIsInFuture)",
             err |-> PendingBlockError(block, last_finalized_block)]
       ELSE insert_block_admitted(t, d, block, outcome)

\* the removal loop of finalize_block: pop_first, drop the chain, queue the
\* chains that hung on it
RECURSIVE finalize_remove_chains(_, _)
finalize_remove_chains(t, remove_chains) ==
    IF remove_chains = {} THEN t
    ELSE LET chain_id == Min(remove_chains)
             rest == remove_chains \ {chain_id}
         IN IF chain_id \in DOMAIN t.chains
            THEN LET r == BI_remove_chain(t.block_indices, t.chains[chain_id])
                 IN finalize_remove_chains(
                        [t EXCEPT !.chains = MapRemove(@, chain_id),
                                  !.block_indices = r.bi],
                        rest \cup r.lose)
            ELSE finalize_remove_chains(t, rest)

\* BlockchainTree::finalize_block
finalize_block(t, finalized_block) ==
    LET r == BI_finalize_canonical_blocks(t.block_indices, finalized_block)
    IN finalize_remove_chains([t EXCEPT !.block_indices = r.bi], r.lose)

\* the removal loop of update_canonical_hashes: it looks at first() without
\* taking it out, so it ends only on an empty set; once the first id names no
\* chain any more, nothing changes between iterations
RECURSIVE update_remove_chains(_, _)
update_remove_chains(t, remove_chains) ==
    IF remove_chains = {} THEN [tree |-> t, returns |-> TRUE]
    ELSE LET chain_id == Min(remove_chains)
         IN IF chain_id \in DOMAIN t.chains
            THEN LET r == BI_remove_chain(t.block_indices, t.chains[chain_id])
                 IN update_remove_chains(
                        [t EXCEPT !.chains = MapRemove(@, chain_id),
                                  !.block_indices = r.bi],
                        remove_chains \cup r.lose)
            ELSE [tree |-> t, returns |-> FALSE]

\* BlockchainTree::update_canonical_hashes
update_canonical_hashes(t, d, last_finalized_block, fw, read_fails) ==
    LET t1 == finalize_block(t, last_finalized_block)
        num_of_canonical_hashes ==
            fw + t1.block_indices.num_of_additional_canonical_block_hashes
        last_canonical_hashes == walk_back_take(d, num_of_canonical_hashes)
        r == BI_update_block_hashes(t1.block_indices, last_canonical_hashes)
        l == update_remove_chains([t1 EXCEPT !.block_indices = r.bi], r.lose)
    IN IF read_fails THEN [tree |-> t1, ret |-> "Err(Database)"]
       ELSE [tree |-> l.tree, ret |-> IF l.returns THEN "Ok" ELSE "Diverged"]


\* self.block_indices.insert_chain(chain_id, &part); self.chains.insert(chain_id, part)
\* for the part of a split chain that stays pending (an Option)
reinsert_pending(t, chain_id, part) ==
    IF part = <<>> THEN t
    ELSE [t EXCEPT !.block_indices = BI_insert_chain(@, chain_id, part[1]),
                   !.chains = MapInsert(@, chain_id, part[1])]

\* the while loop of make_canonical: collect the parent chains up to the
\* canonical chain, each split at the number its child forked from
RECURSIVE promote_loop(_, _, _, _)
promote_loop(t, block_fork, block_fork_number, chains_to_promote) ==
    IF get_blocks_chain_id(t.block_indices, block_fork.hash) = {}
    THEN [tree |-> t, chains_to_promote |-> chains_to_promote, panic |-> FALSE]
    ELSE LET chain_id == t.block_indices.blocks_to_chain[block_fork.hash]
         IN IF chain_id \notin DOMAIN t.chains
            THEN [tree |-> t, chains_to_promote |-> chains_to_promote, panic |-> TRUE]
            ELSE LET chain == t.chains[chain_id]
                     t1 == [t EXCEPT !.chains = MapRemove(@, chain_id)]
                     sp == split_at_number(chain, block_fork_number)
                 IN IF sp[1] = <<>>
                    THEN [tree |-> t1, chains_to_promote |-> chains_to_promote,
                          panic |-> TRUE]
                    ELSE promote_loop(reinsert_pending(t1, chain_id, sp[2]),
                                      chain.fork_block, sp[1][1].fork_block.number,
                                      Append(chains_to_promote, sp[1][1]))

\* new_canon_chain: the last collected chain with the earlier ones appended in
\* reverse order
RECURSIVE merge_chains(_, _)
merge_chains(acc, rest) ==
    IF rest = <<>> THEN acc
    ELSE merge_chains(append_chain(acc, rest[Len(rest)]), SubSeq(rest, 1, Len(rest) - 1))

\* make_canonical from "let old_tip" on
make_canonical_commit(t, d, chains_to_promote, fail) ==
    LET old_tip == canonical_tip(t.block_indices)
        n == Len(chains_to_promote)
        new_canon_chain == merge_chains(chains_to_promote[n], SubSeq(chains_to_promote, 1, n - 1))
        t1 == [t EXCEPT !.block_indices = BI_canonicalize_blocks(@, new_canon_chain.blocks)]
        canon_fork == new_canon_chain.fork_block
    IN IF new_canon_chain.fork_block.hash = old_tip.hash
       THEN LET c == commit_canonical(d, new_canon_chain, fail)
            IN [tree |-> t1, db |-> c.db, ret |-> c.ret]
       ELSE IF canonical_hash(t1.block_indices, canon_fork.number) # {canon_fork.hash}
       THEN [tree |-> t1, db |-> d, ret |-> "Panic"]
       ELSE LET r == revert_canonical(d, canon_fork.number, fail)
            IN IF r.ret # "Ok" THEN [tree |-> t1, db |-> r.db, ret |-> r.ret]
               ELSE LET c == commit_canonical(r.db, new_canon_chain, fail)
                    IN IF c.ret # "Ok" THEN [tree |-> t1, db |-> c.db, ret |-> c.ret]
                       ELSE IF DOMAIN r.rows = {}
                       THEN [tree |-> t1, db |-> c.db, ret |-> "Panic"]
                       ELSE [tree |-> insert_chain(t1, ChainNew(r.rows)),
                             db |-> c.db, ret |-> "Ok"]

\* make_canonical answering Ok for every hash no chain is indexed under
make_canonical_unknown_ok(t, d, block_hash, fail) ==
    IF get_blocks_chain_id(t.block_indices, block_hash) = {}
    THEN [tree |-> t, db |-> d, ret |-> "Ok"]
    ELSE LET chain_id == t.block_indices.blocks_to_chain[block_hash]
             sp == IF chain_id \in DOMAIN t.chains
                   THEN split_at_block_hash(t.chains[chain_id], block_hash)
                   ELSE <<(<<>>), <<>>>>
         IN IF sp[1] = <<>> THEN [tree |-> t, db |-> d, ret |-> "Panic"]
            ELSE LET t1 == [t EXCEPT !.chains = MapRemove(@, chain_id)]
                     t2 == reinsert_pending(t1, chain_id, sp[2])
                     lp == promote_loop(t2, sp[1][1].fork_block,
                                        sp[1][1].fork_block.number, <<sp[1][1]>>)
                 IN IF lp.panic THEN [tree |-> lp.tree, db |-> d, ret |-> "Panic"]
                    ELSE make_canonical_commit(lp.tree, d, lp.chains_to_promote, fail)

\* BlockchainTree::make_canonical
make_canonical(t, d, block_hash, fail) ==
    IF get_blocks_chain_id(t.block_indices, block_hash) = {}
    THEN IF is_block_hash_canonical(t.block_indices, block_hash)
         THEN [tree |-> t, db |-> d, ret |-> "Ok"]
         ELSE [tree |-> t, db |-> d, ret |-> "Err(BlockHashNotFoundInChain)"]
    ELSE LET chain_id == t.block_indices.blocks_to_chain[block_hash]
         IN IF chain_id \notin DOMAIN t.chains
            THEN [tree |-> t, db |-> d, ret |-> "Panic"]
            ELSE LET chain == t.chains[chain_id]
                     t1 == [t EXCEPT !.chains = MapRemove(@, chain_id)]
                     sp == split_at_block_hash(chain, block_hash)
                 IN IF sp[1] = <<>> THEN [tree |-> t1, db |-> d, ret |-> "Panic"]
                    ELSE LET canonical == sp[1][1]
                             t2 == reinsert_pending(t1, chain_id, sp[2])
                             lp == promote_loop(t2, canonical.fork_block,
                                                canonical.fork_block.number, <<canonical>>)
                         IN IF lp.panic THEN [tree |-> lp.tree, db |-> d, ret |-> "Panic"]
                            ELSE make_canonical_commit(lp.tree, d, lp.chains_to_promote, fail)

----------------------------------------------------------------------------
\* Trie loader: hashed state, change sets, trie tables, checkpoint

\* Option<T>: None, Some(x)
None == {}
Some(x) == {x}
unwrap(o) == CHOOSE x \in o : TRUE
unwrap_or(o, d) == IF o = None THEN d ELSE unwrap(o)

\* plain addresses and storage slots of the execution state
Addresses == {10, 20}
StorageSlots == {0, 2, 3}

\* keccak256 on the plain addresses and slots: injective, not monotone
keccak256(x) ==
    CASE x = 10 -> 2
      [] x = 20 -> 1
      [] x = 0 -> 2
      [] x = 2 -> 3
      [] x = 3 -> 1
      [] OTHER -> 0

\* keys of HashedAccount, and subkeys of HashedStorage
HashedAddresses == {keccak256(a) : a \in Addresses}
HashedSlots == {keccak256(k) : k \in StorageSlots}

\* H256::zero(), the least subkey
H256Zero == 0

\* Account values of HashedAccount
KECCAK_EMPTY == "keccak_empty"
Account(nonce, bytecode_hash) ==
    [nonce |-> nonce, balance |-> nonce, bytecode_hash |-> bytecode_hash]
Accounts == {Account(1, None), Account(2, Some("code"))}

\* storage values (a slot holding zero has no entry)
StorageValues == {1, 2}

\* the root of the empty trie
EMPTY_ROOT == <<>>

\* From<Account> for EthAccount that takes every account to have no code
EthAccountFromNoCode(acc) ==
    [nonce |-> acc.nonce,
     balance |-> acc.balance,
     storage_root |-> EMPTY_ROOT,
     code_hash |-> KECCAK_EMPTY]

\* impl From<Account> for EthAccount
EthAccountFrom(acc) ==
    [nonce |-> acc.nonce,
     balance |-> acc.balance,
     storage_root |-> EMPTY_ROOT,
     code_hash |-> unwrap_or(acc.bytecode_hash, KECCAK_EMPTY)]

\* EthAccount::with_storage_root
with_storage_root(eth_account, storage_root) ==
    [eth_account EXCEPT !.storage_root = storage_root]

\* PatriciaTrie::insert / remove / get on the content of a trie
trie_insert(trie, key, value) == MapInsert(trie, key, value)
trie_remove(trie, key) == MapRemove(trie, key)
trie_get(trie, key) == IF key \in DOMAIN trie THEN Some(trie[key]) ELSE None

\* ProofCheckpoint
ProofCheckpoint(account_root, hashed_address, storage_root, storage_key) ==
    [account_root |-> account_root, hashed_address |-> hashed_address,
     storage_root |-> storage_root, storage_key |-> storage_key]

\* ProofCheckpoint::default()
ProofCheckpointDefault == ProofCheckpoint(None, None, None, None)

\* TrieProgress, and the error a call ends with
Complete(root) == [kind |-> "Complete", root |-> root]
InProgress(checkpoint) == [kind |-> "InProgress", checkpoint |-> checkpoint]
Err(e) == [kind |-> "Err", err |-> e]

\* the tables of the transaction a loader works on
MkTx(accounts, storage, account_changes, storage_changes, at, st, checkpoint) ==
    [HashedAccount |-> accounts,
     HashedStorage |-> storage,
     AccountChangeSet |-> account_changes,
     StorageChangeSet |-> storage_changes,
     AccountsTrie |-> at,
     StoragesTrie |-> st,
     SyncStageProgress |-> checkpoint]

\* an empty database
EmptyTx == MkTx(EmptyMap, {}, {}, {}, {}, {}, None)

\* StorageEntry under a hashed address in the dup-sorted HashedStorage
StorageEntry(address, key, value) == [address |-> address, key |-> key, value |-> value]

\* DbDupCursorRO::seek_by_key_subkey on HashedStorage: the first entry of
\* key at or after subkey
seek_by_key_subkey(table, key, subkey) ==
    LET dups == {e \in table : e.address = key /\ e.key >= subkey}
    IN IF dups = {} THEN None
       ELSE Some(CHOOSE e \in dups : \A f \in dups : e.key <= f.key)

\* DbDupCursorRO::next_dup after entry
next_dup(table, entry) ==
    LET dups == {e \in table : e.address = entry.address /\ e.key > entry.key}
    IN IF dups = {} THEN None
       ELSE Some(CHOOSE e \in dups : \A f \in dups : e.key <= f.key)

\* the default commit_threshold of DBTrieLoader::new
DefaultCommitThreshold == 2000000

\* DBTrieLoader::new_with_threshold
new_with_threshold(t, commit_threshold) ==
    [commit_threshold |-> commit_threshold, current |-> 0, tx |-> t]

\* DBTrieLoader::new
DBTrieLoaderNew(t) == new_with_threshold(t, DefaultCommitThreshold)

\* commit_threshold and current of a loader
LoaderCounters(self) ==
    [commit_threshold |-> self.commit_threshold, current |-> self.current]

\* no loader call has been made
NoProgress ==
    [op |-> "none", ret |-> Complete(EMPTY_ROOT), interruptions |-> {}, root |-> None,
     first_tid |-> 1, next_tid |-> 1]

\* a read of the trie tables (a proof is generated, an adapter is asked for a
\* node), its arguments and what it returned
MkQuery(op, root, address, keys, ret) ==
    [op |-> op, root |-> root, address |-> address, keys |-> keys, ret |-> ret]

\* no read has been made since the tables were written last
NoQuery == MkQuery("none", EMPTY_ROOT, H256Zero, <<>>, None)

\* what a method leaves behind and what it returns
Return(self, ret) == [self |-> self, ret |-> ret]

\* DBTrieLoader::has_hit_threshold
has_hit_threshold(self) ==
    Return([self EXCEPT !.current = @ + 1], self.current + 1 >= self.commit_threshold)

\* DBTrieLoader::save_checkpoint
save_checkpoint(self, checkpoint) ==
    [self EXCEPT !.current = 0, !.tx.SyncStageProgress = Some(checkpoint)]

\* DBTrieLoader::get_checkpoint
get_checkpoint(self) ==
    unwrap_or(self.tx.SyncStageProgress, ProofCheckpointDefault)

\* save_account_checkpoint that returns the checkpoint without persisting it
save_account_checkpoint_unsaved(self, checkpoint, root, hashed_address) ==
    Return(self, InProgress([checkpoint EXCEPT !.account_root = Some(root),
                                               !.hashed_address = Some(hashed_address)]))

\* DBTrieLoader::save_account_checkpoint
save_account_checkpoint(self, checkpoint, root, hashed_address) ==
    LET cp == [checkpoint EXCEPT !.account_root = Some(root),
                                 !.hashed_address = Some(hashed_address)]
    IN Return(save_checkpoint(self, cp), InProgress(cp))

\* HashDatabaseMut::new: the sentinel row of the empty trie is written
HashDatabaseMutNew(self) ==
    [self EXCEPT !.tx.AccountsTrie = @ \cup {EMPTY_ROOT}]

\* HashDatabaseMut::from_root followed by PatriciaTrie::from, which reads the
\* root node through get: the trie with that root, or the error
AccountTrieFrom(self, root) ==
    IF root = EMPTY_ROOT
    THEN Return(HashDatabaseMutNew(self), Complete(root))
    ELSE IF root \in self.tx.AccountsTrie
         THEN Return(self, Complete(root))
         ELSE Return(self, Err("MissingAccountRoot"))

\* PatriciaTrie::root on the account trie that writes no node
account_trie_root_unwritten(self, trie) ==
    self

\* PatriciaTrie::root on the account trie: commits the nodes through
\* HashDatabaseMut::insert_map
account_trie_root(self, trie) ==
    [self EXCEPT !.tx.AccountsTrie = @ \cup {trie}]

\* replace_account_root that leaves the row of previous_root in place
replace_account_root_keep(self, trie, previous_root) ==
    Return(account_trie_root(self, trie), trie)

\* DBTrieLoader::replace_account_root
replace_account_root(self, trie, previous_root) ==
    LET committed == account_trie_root(self, trie)
        new_root == trie
    IN IF new_root # previous_root
       THEN Return([committed EXCEPT !.tx.AccountsTrie = @ \ {previous_root}], new_root)
       ELSE Return(committed, new_root)

\* a StoragesTrie entry: the node with hash under the hashed address
StorageTrieEntry(address, hash) == <<address, hash>>

\* DupHashDatabaseMut::from_root followed by PatriciaTrie::from, which reads
\* the root node through get (an entry with hash EMPTY_ROOT is never written)
StorageTrieFrom(self, address, root) ==
    IF root = EMPTY_ROOT
    THEN Return(self, Err("InternalError"))
    ELSE IF StorageTrieEntry(address, root) \in self.tx.StoragesTrie
         THEN Return(self, Complete(root))
         ELSE Return(self, Err("MissingStorageRoot"))

\* PatriciaTrie::root on a storage trie that writes no node
storage_trie_root_unwritten(self, address, trie) ==
    self

\* PatriciaTrie::root on a storage trie: commits the nodes through
\* DupHashDatabaseMut::insert_map, which skips EMPTY_ROOT
storage_trie_root(self, address, trie) ==
    IF trie = EMPTY_ROOT THEN self
    ELSE [self EXCEPT !.tx.StoragesTrie = @ \cup {StorageTrieEntry(address, trie)}]

\* replace_storage_root that never deletes the previous entry
replace_storage_root_keep(self, new_root, address, previous_root) ==
    Return(self, new_root)

\* DBTrieLoader::replace_storage_root
replace_storage_root(self, new_root, address, previous_root) ==
    IF new_root # previous_root /\ previous_root # EMPTY_ROOT
    THEN Return([self EXCEPT !.tx.StoragesTrie = @ \ {StorageTrieEntry(address, previous_root)}],
                new_root)
    ELSE Return(self, new_root)

RECURSIVE calculate_storage_root_loop(_, _, _, _, _)

\* the pass of calculate_storage_root's loop checkpointing the slot it has
\* just inserted instead of the one the cursor moved to
calculate_storage_root_iteration_last_key(self, address, trie, current_entry, previous_root) ==
    IF current_entry = None
    THEN LET r == replace_storage_root(storage_trie_root(self, address, trie), trie,
                                       address, previous_root)
         IN Return(r.self, Complete(r.ret))
    ELSE LET entry == unwrap(current_entry)
             inserted == trie_insert(trie, entry.key, entry.value)
             next == next_dup(self.tx.HashedStorage, entry)
             threshold == has_hit_threshold(self)
         IN IF next # None /\ threshold.ret
            THEN LET r == replace_storage_root(
                              storage_trie_root(threshold.self, address, inserted),
                              inserted, address, previous_root)
                 IN Return(r.self,
                           InProgress(ProofCheckpoint(None, None, Some(r.ret),
                                                      Some(entry.key))))
            ELSE calculate_storage_root_loop(threshold.self, address, inserted, next,
                                             previous_root)

\* one pass of the loop of calculate_storage_root (567-588), then the rest of it
calculate_storage_root_iteration(self, address, trie, current_entry, previous_root) ==
    IF current_entry = None
    THEN LET r == replace_storage_root(storage_trie_root(self, address, trie), trie,
                                       address, previous_root)
         IN Return(r.self, Complete(r.ret))
    ELSE LET entry == unwrap(current_entry)
             inserted == trie_insert(trie, entry.key, entry.value)
             next == next_dup(self.tx.HashedStorage, entry)
             threshold == has_hit_threshold(self)
         IN IF next # None /\ threshold.ret
            THEN LET r == replace_storage_root(
                              storage_trie_root(threshold.self, address, inserted),
                              inserted, address, previous_root)
                 IN Return(r.self,
                           InProgress(ProofCheckpoint(None, None, Some(r.ret),
                                                      Some(unwrap(next).key))))
            ELSE calculate_storage_root_loop(threshold.self, address, inserted, next,
                                             previous_root)

\* the loop of calculate_storage_root (567-588) from current_entry on, entered with
\* the loader, the trie and the cursor as they are by then
calculate_storage_root_loop(self, address, trie, current_entry, previous_root) ==
    CHOOSE ret \in
        {calculate_storage_root_iteration(
             evaluated_self, address, evaluated_trie,
             evaluated_current_entry, previous_root) :
         evaluated_self \in {self},
         evaluated_trie \in {trie},
         evaluated_current_entry \in {current_entry}} : TRUE

\* calculate_storage_root resuming at the checkpointed slot with a new trie
calculate_storage_root_restart(self, address, next_storage, previous_root_option) ==
    LET previous_root == unwrap_or(previous_root_option, EMPTY_ROOT)
        current_entry ==
            IF next_storage # None
            THEN {e \in seek_by_key_subkey(self.tx.HashedStorage, address,
                                           unwrap(next_storage)) :
                      e.key = unwrap(next_storage)}
            ELSE seek_by_key_subkey(self.tx.HashedStorage, address, H256Zero)
    IN IF current_entry = None
       THEN LET r == replace_storage_root(self, EMPTY_ROOT, address, previous_root)
            IN Return(r.self, Complete(r.ret))
       ELSE calculate_storage_root_loop(self, address, EMPTY_ROOT, current_entry,
                                        previous_root)

\* DBTrieLoader::calculate_storage_root
calculate_storage_root(self, address, next_storage, previous_root_option) ==
    LET previous_root == unwrap_or(previous_root_option, EMPTY_ROOT)
        has_checkpoint == next_storage # None
        current_entry ==
            IF has_checkpoint
            THEN {e \in seek_by_key_subkey(self.tx.HashedStorage, address,
                                           unwrap(next_storage)) :
                      e.key = unwrap(next_storage)}
            ELSE seek_by_key_subkey(self.tx.HashedStorage, address, H256Zero)
    IN IF current_entry = None
       THEN LET r == replace_storage_root(self, EMPTY_ROOT, address, previous_root)
            IN Return(r.self, Complete(r.ret))
       ELSE IF has_checkpoint
            THEN LET from == StorageTrieFrom(self, address, previous_root)
                 IN IF from.ret.kind = "Err" THEN from
                    ELSE calculate_storage_root_loop(from.self, address, from.ret.root,
                                                     current_entry, previous_root)
            ELSE calculate_storage_root_loop(self, address, EMPTY_ROOT, current_entry,
                                             previous_root)

\* the hashed addresses a walker over HashedAccount yields from start_key on
walk(hashed_account, start_key) ==
    SortedKeys({a \in DOMAIN hashed_account : start_key = None \/ a >= unwrap(start_key)})

RECURSIVE calculate_root_loop(_, _, _, _, _)

\* one pass of the loop of calculate_root (483-514), then the rest of it
calculate_root_iteration(self, trie, walker, checkpoint, previous_root) ==
    IF walker = <<>>
    THEN LET saved == save_checkpoint(self, ProofCheckpointDefault)
             r == replace_account_root(saved, trie, previous_root)
         IN Return(r.self, Complete(r.ret))
    ELSE LET hashed_address == Head(walker)
             account == self.tx.HashedAccount[hashed_address]
             res == calculate_storage_root(self, hashed_address, checkpoint.storage_key,
                                           checkpoint.storage_root)
         IN CASE res.ret.kind = "Complete" ->
                   LET value == with_storage_root(EthAccountFrom(account), res.ret.root)
                       inserted == trie_insert(trie, hashed_address, value)
                       threshold == has_hit_threshold(res.self)
                   IN IF threshold.ret
                      THEN LET r == replace_account_root(threshold.self, inserted,
                                                         previous_root)
                           IN save_account_checkpoint(r.self, ProofCheckpointDefault,
                                                      r.ret, hashed_address)
                      ELSE calculate_root_loop(threshold.self, inserted, Tail(walker),
                                               ProofCheckpointDefault, previous_root)
              [] res.ret.kind = "InProgress" ->
                   LET r == replace_account_root(res.self, trie, previous_root)
                   IN save_account_checkpoint(r.self, res.ret.checkpoint, r.ret,
                                              hashed_address)
              [] OTHER -> res

\* the loop of calculate_root (483-514) over the rest of the walker, entered with
\* the loader and the trie as they are by then
calculate_root_loop(self, trie, walker, checkpoint, previous_root) ==
    CHOOSE ret \in
        {calculate_root_iteration(
             evaluated_self, evaluated_trie, evaluated_walker,
             checkpoint, previous_root) :
         evaluated_self \in {self},
         evaluated_trie \in {trie},
         evaluated_walker \in {walker}} : TRUE

\* calculate_root resuming at the checkpointed account, not after it
calculate_root_no_skip(self) ==
    LET checkpoint == get_checkpoint(self)
        cleared == IF checkpoint.hashed_address = None
                   THEN [self EXCEPT !.tx.AccountsTrie = {}, !.tx.StoragesTrie = {}]
                   ELSE self
        previous_root == unwrap_or(checkpoint.account_root, EMPTY_ROOT)
        from == IF checkpoint.account_root # None
                THEN AccountTrieFrom(cleared, unwrap(checkpoint.account_root))
                ELSE Return(HashDatabaseMutNew(cleared), Complete(EMPTY_ROOT))
        walker == walk(cleared.tx.HashedAccount, checkpoint.hashed_address)
    IN IF from.ret.kind = "Err" THEN from
       ELSE calculate_root_loop(from.self, from.ret.root, walker,
                                ProofCheckpoint(None, None, checkpoint.storage_root,
                                                checkpoint.storage_key),
                                previous_root)

\* DBTrieLoader::calculate_root
calculate_root(self) ==
    LET checkpoint == get_checkpoint(self)
        cleared == IF checkpoint.hashed_address = None
                   THEN [self EXCEPT !.tx.AccountsTrie = {}, !.tx.StoragesTrie = {}]
                   ELSE self
        previous_root == unwrap_or(checkpoint.account_root, EMPTY_ROOT)
        from == IF checkpoint.account_root # None
                THEN AccountTrieFrom(cleared, unwrap(checkpoint.account_root))
                ELSE Return(HashDatabaseMutNew(cleared), Complete(EMPTY_ROOT))
        first_hashed_address == checkpoint.hashed_address
        walker == walk(cleared.tx.HashedAccount, first_hashed_address)
        skipped == IF first_hashed_address # None /\ checkpoint.storage_root = None
                   THEN IF walker = <<>> THEN walker ELSE Tail(walker)
                   ELSE walker
    IN IF from.ret.kind = "Err" THEN from
       ELSE calculate_root_loop(from.self, from.ret.root, skipped,
                                ProofCheckpoint(None, None, checkpoint.storage_root,
                                                checkpoint.storage_key),
                                previous_root)

\* Iterator::skip_while on a sequence; skipped: the elements the predicate holds of
RECURSIVE skip_while(_, _)
skip_while(seq, skipped) ==
    IF seq = <<>> THEN seq
    ELSE IF Head(seq) \in skipped THEN skip_while(Tail(seq), skipped) ELSE seq

\* gather_changes walking the change sets up to and including end
gather_changes_inclusive(self, tid_range) ==
    LET in_range(tid) == tid_range.start <= tid /\ tid <= tid_range.end
        account_changes ==
            {e[2] : e \in {c \in self.tx.AccountChangeSet : in_range(c[1])}}
            \cup {e[2] : e \in {c \in self.tx.StorageChangeSet : in_range(c[1])}}
        storage(address) ==
            {e[3] : e \in {c \in self.tx.StorageChangeSet :
                               in_range(c[1]) /\ c[2] = address}}
    IN [hashed \in {keccak256(a) : a \in account_changes} |->
           LET address == CHOOSE a \in account_changes : keccak256(a) = hashed
           IN {keccak256(k) : k \in storage(address)}]

\* DBTrieLoader::gather_changes over the transitions start..end (end excluded):
\* hashed address -> hashed slots
gather_changes(self, tid_range) ==
    LET in_range(tid) == tid_range.start <= tid /\ tid < tid_range.end
        account_changes ==
            {e[2] : e \in {c \in self.tx.AccountChangeSet : in_range(c[1])}}
            \cup {e[2] : e \in {c \in self.tx.StorageChangeSet : in_range(c[1])}}
        storage(address) ==
            {e[3] : e \in {c \in self.tx.StorageChangeSet :
                               in_range(c[1]) /\ c[2] = address}}
    IN [hashed \in {keccak256(a) : a \in account_changes} |->
           LET address == CHOOSE a \in account_changes : keccak256(a) = hashed
           IN {keccak256(k) : k \in storage(address)}]

RECURSIVE update_storage_root_loop(_, _, _, _, _, _)

\* the pass of update_storage_root's loop checking the threshold after the
\* last changed slot as well
update_storage_root_iteration_after_last(self, address, trie, changed_storages, idx, previous_root) ==
    IF idx > Len(changed_storages)
    THEN LET r == replace_storage_root(storage_trie_root(self, address, trie), trie,
                                       address, previous_root)
         IN Return(r.self, Complete(r.ret))
    ELSE LET key == changed_storages[idx]
             entry == {e \in seek_by_key_subkey(self.tx.HashedStorage, address, key) :
                           e.key = key}
         IN IF entry # None
            THEN LET inserted == trie_insert(trie, key, unwrap(entry).value)
                     threshold == has_hit_threshold(self)
                 IN IF threshold.ret
                    THEN LET r == replace_storage_root(
                                      storage_trie_root(threshold.self, address, inserted),
                                      inserted, address, previous_root)
                         IN Return(r.self,
                                   InProgress(ProofCheckpoint(None, None, Some(r.ret),
                                                              Some(key))))
                    ELSE update_storage_root_loop(threshold.self, address, inserted,
                                                  changed_storages, idx + 1,
                                                  previous_root)
            ELSE update_storage_root_loop(self, address, trie_remove(trie, key),
                                          changed_storages, idx + 1, previous_root)

\* one pass of the loop of update_storage_root (732-754), then the rest of it
update_storage_root_iteration(self, address, trie, changed_storages, idx, previous_root) ==
    IF idx > Len(changed_storages)
    THEN LET r == replace_storage_root(storage_trie_root(self, address, trie), trie,
                                       address, previous_root)
         IN Return(r.self, Complete(r.ret))
    ELSE LET key == changed_storages[idx]
             entry == {e \in seek_by_key_subkey(self.tx.HashedStorage, address, key) :
                           e.key = key}
         IN IF entry # None
            THEN LET inserted == trie_insert(trie, key, unwrap(entry).value)
                     threshold == has_hit_threshold(self)
                 IN IF threshold.ret /\ idx # Len(changed_storages)
                    THEN LET r == replace_storage_root(
                                      storage_trie_root(threshold.self, address, inserted),
                                      inserted, address, previous_root)
                         IN Return(r.self,
                                   InProgress(ProofCheckpoint(None, None, Some(r.ret),
                                                              Some(key))))
                    ELSE update_storage_root_loop(threshold.self, address, inserted,
                                                  changed_storages, idx + 1,
                                                  previous_root)
            ELSE update_storage_root_loop(self, address, trie_remove(trie, key),
                                          changed_storages, idx + 1, previous_root)

\* the loop of update_storage_root (732-754) over the changed slots from idx on,
\* entered with the loader and the trie as they are by then
update_storage_root_loop(self, address, trie, changed_storages, idx, previous_root) ==
    CHOOSE ret \in
        {update_storage_root_iteration(
             evaluated_self, address, evaluated_trie, changed_storages,
             idx, previous_root) :
         evaluated_self \in {self},
         evaluated_trie \in {trie}} : TRUE

\* DBTrieLoader::update_storage_root
update_storage_root(self, previous_root, address, changed_storages, next_storage) ==
    IF seek_by_key_subkey(self.tx.HashedStorage, address, H256Zero) = None
    THEN LET r == replace_storage_root(self, EMPTY_ROOT, address, previous_root)
         IN Return(r.self, Complete(r.ret))
    ELSE LET from == StorageTrieFrom(self, address, previous_root)
             processed == {k \in changed_storages :
                               next_storage # None /\ k <= unwrap(next_storage)}
             remaining == skip_while(SortedKeys(changed_storages), processed)
         IN IF from.ret.kind = "Err" THEN from
            ELSE update_storage_root_loop(from.self, address, from.ret.root, remaining, 1,
                                          previous_root)

RECURSIVE update_root_loop(_, _, _, _, _, _, _)

\* one pass of the loop of update_root (630-685), then the rest of it
update_root_iteration(self, trie, changed_accounts, changes, idx, checkpoint, previous_root) ==
    IF idx > Len(changed_accounts)
    THEN LET saved == save_checkpoint(self, ProofCheckpointDefault)
             r == replace_account_root(saved, trie, previous_root)
         IN Return(r.self, Complete(r.ret))
    ELSE LET hashed_address == changed_accounts[idx]
             changed_storages == changes[hashed_address]
             account == trie_get(trie, hashed_address)
             res == IF account # None
                    THEN update_storage_root(
                             self,
                             unwrap_or(checkpoint.storage_root, unwrap(account).storage_root),
                             hashed_address, changed_storages, checkpoint.storage_key)
                    ELSE calculate_storage_root(self, hashed_address,
                                                checkpoint.storage_key,
                                                checkpoint.storage_root)
         IN CASE res.ret.kind = "InProgress" ->
                   LET r == replace_account_root(res.self, trie, previous_root)
                   IN save_account_checkpoint(r.self, res.ret.checkpoint, r.ret,
                                              hashed_address)
              [] res.ret.kind = "Complete" ->
                   IF hashed_address \in DOMAIN res.self.tx.HashedAccount
                   THEN LET value == with_storage_root(
                                         EthAccountFrom(res.self.tx.HashedAccount[hashed_address]),
                                         res.ret.root)
                            inserted == trie_insert(trie, hashed_address, value)
                            threshold == has_hit_threshold(res.self)
                        IN IF threshold.ret /\ idx # Len(changed_accounts)
                           THEN LET r == replace_account_root(threshold.self, inserted,
                                                              previous_root)
                                IN save_account_checkpoint(r.self, ProofCheckpointDefault,
                                                           r.ret, hashed_address)
                           ELSE update_root_loop(threshold.self, inserted, changed_accounts,
                                                 changes, idx + 1, ProofCheckpointDefault,
                                                 previous_root)
                   ELSE update_root_loop(res.self, trie, changed_accounts, changes,
                                         idx + 1, ProofCheckpointDefault, previous_root)
              [] OTHER -> res

\* the loop of update_root (630-685) over the changed accounts from idx on,
\* entered with the loader and the trie as they are by then
update_root_loop(self, trie, changed_accounts, changes, idx, checkpoint, previous_root) ==
    CHOOSE ret \in
        {update_root_iteration(
             evaluated_self, evaluated_trie, changed_accounts, changes,
             idx, checkpoint, previous_root) :
         evaluated_self \in {self},
         evaluated_trie \in {trie}} : TRUE

\* a Range<TransitionId>
TidRange(start, end) == [start |-> start, end |-> end]

\* DBTrieLoader::update_root
update_root(self, previous_root_arg, tid_range) ==
    LET checkpoint == get_checkpoint(self)
        previous_root == unwrap_or(checkpoint.account_root, previous_root_arg)
        next_acc == checkpoint.hashed_address
        changes == gather_changes(self, tid_range)
        before == {addr \in DOMAIN changes : next_acc # None /\ unwrap(next_acc) # addr}
        changed_accounts == skip_while(SortedKeys(DOMAIN changes), before)
        from == AccountTrieFrom(self, previous_root)
    IN IF from.ret.kind = "Err" THEN from
       ELSE update_root_loop(from.self, from.ret.root, changed_accounts, changes, 1,
                             ProofCheckpoint(None, None, checkpoint.storage_root,
                                             checkpoint.storage_key),
                             previous_root)

----------------------------------------------------------------------------
\* Trie loader: the adapters' reads and the read-only impls

\* a value a read-only call returns
Ok(value) == [kind |-> "Ok", value |-> value]

\* the position of the hash of a storage trie node in the order of the
\* dup-sorted StoragesTrie: injective on the node contents, like keccak256
RECURSIVE hash_rank_sum(_, _)
hash_rank_sum(node, slots) ==
    IF slots = {} THEN 0
    ELSE LET k == Max(slots)
         IN node[k] + 3 * hash_rank_sum(node, slots \ {k})

hash_rank(node) == hash_rank_sum(node, DOMAIN node)

\* DbDupCursorRO::seek_by_key_subkey on StoragesTrie: the first entry of key
\* whose hash is at or after subkey
seek_by_key_subkey_hash(table, key, subkey) ==
    LET dups == {e \in table : e[1] = key /\ hash_rank(e[2]) >= hash_rank(subkey)}
    IN IF dups = {} THEN None
       ELSE Some(CHOOSE e \in dups : \A f \in dups : hash_rank(e[2]) <= hash_rank(f[2]))

\* the node of a StoragesTrie entry: the node is the preimage of its hash
entry_node(entry) == entry[2]

\* <HashDatabaseMut as cita_trie::DB>::get
HashDatabaseMut_get(self, key) ==
    IF key \in self.tx.AccountsTrie THEN Some(key) ELSE None

\* <DupHashDatabaseMut as cita_trie::DB>::get, for the adapter of address
DupHashDatabaseMut_get(self, address, key) ==
    {entry_node(e) : e \in {f \in seek_by_key_subkey_hash(self.tx.StoragesTrie, address, key) :
                               f[2] = key}}

\* <HashDatabase as cita_trie::DB>::get
HashDatabase_get(self, key) ==
    IF key \in self.tx.AccountsTrie THEN Some(key) ELSE None

\* <DupHashDatabase as cita_trie::DB>::get, for the adapter of address
DupHashDatabase_get(self, address, key) ==
    {entry_node(e) : e \in seek_by_key_subkey_hash(self.tx.StoragesTrie, address, key)}

\* HashDatabase::from_root
HashDatabase_from_root(self, root) ==
    IF HashDatabase_get(self, root) = None THEN Err("MissingAccountRoot") ELSE Ok(root)

\* DupHashDatabase::from_root
DupHashDatabase_from_root(self, key, root) ==
    IF seek_by_key_subkey_hash(self.tx.StoragesTrie, key, root) = None
    THEN Err("MissingAccountRoot")
    ELSE Ok(root)

\* PatriciaTrie::get_proof: the nodes on the path to key, of which the model
\* keeps the leaf the path ends in (None: a proof of absence)
get_proof(trie, key) == trie_get(trie, key)

\* generate_acount_proof returning the storage root of the empty trie for an
\* absent leaf
generate_acount_proof_empty_root(self, root, address) ==
    LET database == HashDatabase_from_root(self, root)
    IN IF database.kind = "Err" THEN database
       ELSE LET trie == unwrap(HashDatabase_get(self, root))
                proof == get_proof(trie, address)
                account == trie_get(trie, address)
            IN IF account = None THEN Ok(<<proof, EMPTY_ROOT>>)
               ELSE Ok(<<proof, unwrap(account).storage_root>>)

\* DBTrieLoader::generate_acount_proof
generate_acount_proof(self, root, address) ==
    LET database == HashDatabase_from_root(self, root)
    IN IF database.kind = "Err" THEN database
       ELSE LET trie == unwrap(HashDatabase_get(self, root))
                proof == get_proof(trie, address)
                account == trie_get(trie, address)
            IN IF account = None THEN Ok(<<proof, KECCAK_EMPTY>>)
               ELSE Ok(<<proof, unwrap(account).storage_root>>)

\* DBTrieLoader::generate_storage_proofs: PatriciaTrie::from decodes the node
\* DupHashDatabase::get returns for storage_root
generate_storage_proofs(self, storage_root, address, keys) ==
    LET database == DupHashDatabase_from_root(self, address, storage_root)
    IN IF database.kind = "Err" THEN database
       ELSE LET node == DupHashDatabase_get(self, address, storage_root)
            IN IF node = None THEN Err("InternalError")
               ELSE Ok([i \in DOMAIN keys |-> get_proof(unwrap(node), keys[i])])

----------------------------------------------------------------------------
\* Construction

\* BlockchainTree::new parameters
FinalizationWindows == {1}
SideChainMaxSizes == {2}
AdditionalCanonicalBlockHashes == {0, 3}

\* the database the tree is built over: canonical blocks 0..2
InitialDb == MkDb((0 :> "g0") @@ (1 :> "g1") @@ (2 :> "g2"), 2)

\* last_finalized_block_number of BlockchainTree::new
new_last_finalized(last_canonical_hashes, fw) ==
    LET ks == DOMAIN last_canonical_hashes
    IN IF Cardinality(ks) > fw
       THEN CHOOSE k \in ks : Cardinality({j \in ks : j > k}) = fw
       ELSE IF ks = {} THEN 0 ELSE Min(ks)

\* a call (its name and argument) and what it returned
MkResult(op, hash, n, ret, err) ==
    [op |-> op, hash |-> hash, number |-> n, ret |-> ret, err |-> err]

\* BlockchainTree::new(externals, finalization_window, num_of_side_chain_max_size,
\* num_of_additional_canonical_block_hashes)
BlockchainTreeNew(fw, mx, na) ==
    /\ db = InitialDb
    /\ finalization_window = fw
    /\ num_of_side_chain_max_size = mx
    /\ chain_id_generator = 0
    /\ chains = EmptyMap
    /\ LET last_canonical_hashes == walk_back_take(InitialDb, fw + na)
       IN block_indices = BlockIndicesNew(new_last_finalized(last_canonical_hashes, fw),
                                          na, last_canonical_hashes)
    /\ result = MkResult("new", ZeroHash, 0, "Ok", NoError)

\* a tree is built; no trie loader has run on the (empty) trie tables
Init ==
    \E fw \in FinalizationWindows, mx \in SideChainMaxSizes,
       na \in AdditionalCanonicalBlockHashes :
        /\ fw <= mx
        /\ BlockchainTreeNew(fw, mx, na)
        /\ tables = EmptyTx
        /\ loader = LoaderCounters(DBTrieLoaderNew(EmptyTx))
        /\ progress = NoProgress
        /\ query = NoQuery

----------------------------------------------------------------------------
\* Calls

\* no call is made after a panic or into a call that never returns
Running == result.ret \notin {"Panic", "Diverged"}

SetTree(t) ==
    /\ chains' = t.chains
    /\ chain_id_generator' = t.chain_id_generator
    /\ block_indices' = t.block_indices

InsertBlock ==
    \E block \in OfferedBlocks, outcome \in Outcomes :
        /\ Running
        /\ LET r == insert_block_with_senders(Tree, db, block, outcome,
                                              num_of_side_chain_max_size)
           IN /\ r.tree.chain_id_generator <= MaxChainId
              /\ SetTree(r.tree)
              /\ result' = MkResult("insert_block", block, number(block), r.ret, r.err)
        /\ UNCHANGED <<db, num_of_side_chain_max_size, finalization_window>>
        /\ UNCHANGED trie_vars

MakeCanonical ==
    \E block_hash \in OfferedHashes, fail \in Failures :
        /\ Running
        /\ LET r == make_canonical(Tree, db, block_hash, fail)
           IN /\ r.tree.chain_id_generator <= MaxChainId
              /\ SetTree(r.tree)
              /\ db' = r.db
              /\ result' = MkResult("make_canonical", block_hash, 0, r.ret, NoError)
        /\ UNCHANGED <<num_of_side_chain_max_size, finalization_window>>
        /\ UNCHANGED trie_vars

FinalizeBlock ==
    \E finalized_block \in FinalizedNumbers :
        /\ Running
        /\ SetTree(finalize_block(Tree, finalized_block))
        /\ result' = MkResult("finalize_block", ZeroHash, finalized_block, "Ok", NoError)
        /\ UNCHANGED <<db, num_of_side_chain_max_size, finalization_window>>
        /\ UNCHANGED trie_vars

UpdateCanonicalHashes ==
    \E last_finalized_block \in FinalizedNumbers, read_fails \in BOOLEAN :
        /\ Running
        /\ LET r == update_canonical_hashes(Tree, db, last_finalized_block,
                                            finalization_window, read_fails)
           IN /\ SetTree(r.tree)
              /\ result' = MkResult("update_canonical_hashes", ZeroHash,
                                    last_finalized_block, r.ret, NoError)
        /\ UNCHANGED <<db, num_of_side_chain_max_size, finalization_window>>
        /\ UNCHANGED trie_vars

Next == InsertBlock \/ MakeCanonical \/ FinalizeBlock \/ UpdateCanonicalHashes

Spec == Init /\ [][Next]_vars

\* only insert_block is ever called
InsertSpec == Init /\ [][InsertBlock]_vars

----------------------------------------------------------------------------
\* Trie loader calls

\* the thresholds a loader is created with
CommitThresholds == {0, 1, 2, DefaultCommitThreshold}

\* the hashed state a database holds before the first root is computed:
\* any accounts, each with any slots
Snapshots ==
    {MkTx([a \in DOMAIN slots |-> Account(1, None)],
          UNION {{StorageEntry(a, k, 1) : k \in slots[a]} : a \in DOMAIN slots},
          {}, {}, {}, {}, None) :
       slots \in UNION {[as -> SUBSET HashedSlots] : as \in SUBSET HashedAddresses}}

\* a loader call, what it returned, where the calls of this computation were
\* interrupted so far ("account": after an account, "storage": between two
\* slots), the last root a call completed with and the transitions executed:
\* first_tid is the first one that root does not cover
MkProgress(op, ret, interruptions, root, first_tid, next_tid) ==
    [op |-> op, ret |-> ret, interruptions |-> interruptions, root |-> root,
     first_tid |-> first_tid, next_tid |-> next_tid]

TrieInit ==
    /\ BlockchainTreeNew(1, 2, 0)
    /\ tables \in Snapshots
    /\ loader = LoaderCounters(DBTrieLoaderNew(tables))
    /\ progress = NoProgress
    /\ query = NoQuery

\* the checkpoint a call would resume from
Resuming == get_checkpoint(DBTrieLoaderNew(tables)) # ProofCheckpointDefault

\* a caller stops at an error
Healthy == progress.ret.kind # "Err"

\* a loader call has returned r: the transaction is committed unless the call failed
Returned_(op, r) ==
    /\ tables' = IF r.ret.kind = "Err" THEN tables ELSE r.self.tx
    /\ loader' = LoaderCounters(r.self)
    /\ LET before == IF Resuming THEN progress.interruptions ELSE {}
       IN progress' =
              CASE r.ret.kind = "Complete" ->
                     MkProgress(op, r.ret, before, Some(r.ret.root), progress.next_tid,
                                progress.next_tid)
                [] r.ret.kind = "InProgress" ->
                     MkProgress(op, r.ret,
                                before \cup {IF r.ret.checkpoint.storage_key = None
                                             THEN "account" ELSE "storage"},
                                progress.root, progress.first_tid, progress.next_tid)
                [] OTHER ->
                     MkProgress(op, r.ret, before, progress.root, progress.first_tid,
                                progress.next_tid)
    /\ query' = NoQuery
    /\ UNCHANGED tree_vars

\* calculate_root with a fresh loader, called again until it completes: it
\* builds the first root, the roots after it come from update_root
CalculateRoot ==
    \E commit_threshold \in CommitThresholds :
        /\ Healthy
        /\ progress.op \in {"none", "calculate_root", "save_checkpoint"}
        /\ \E r \in {calculate_root(new_with_threshold(tables, commit_threshold))} :
               Returned_("calculate_root", r)

\* update_root(previous_root, first_tid..next_tid) with a fresh loader of the
\* given threshold
UpdateRootWith(commit_threshold) ==
    /\ Healthy
    /\ progress.root # None
    /\ Resuming => progress.op = "update_root"
    /\ \E r \in {update_root(new_with_threshold(tables, commit_threshold),
                            unwrap(progress.root),
                            TidRange(progress.first_tid, progress.next_tid))} :
           Returned_("update_root", r)

\* update_root, called again with the same arguments until it completes
UpdateRoot == \E commit_threshold \in CommitThresholds : UpdateRootWith(commit_threshold)

\* update_root called with commit_threshold = 1
UpdateRootOne == UpdateRootWith(1)

\* a transition is executed on the hashed state and recorded in the change sets
Executed(hashed_account, hashed_storage, account_changes, storage_changes) ==
    /\ Healthy
    /\ ~Resuming
    /\ progress.root # None
    /\ progress.next_tid <= MaxTransition
    /\ tables' = [tables EXCEPT
                     !.HashedAccount = hashed_account,
                     !.HashedStorage = hashed_storage,
                     !.AccountChangeSet = @ \cup {<<progress.next_tid, a>> : a \in account_changes},
                     !.StorageChangeSet = @ \cup {<<progress.next_tid, c[1], c[2]>> :
                                                      c \in storage_changes}]
    /\ progress' = [progress EXCEPT !.op = "execute", !.interruptions = {},
                                    !.next_tid = @ + 1]
    /\ loader' = LoaderCounters(DBTrieLoaderNew(tables'))
    /\ query' = NoQuery
    /\ UNCHANGED tree_vars

\* an account is created or changed
PutAccount ==
    \E address \in Addresses, account \in Accounts :
        /\ trie_get(tables.HashedAccount, keccak256(address)) # Some(account)
        /\ Executed(MapInsert(tables.HashedAccount, keccak256(address), account),
                    tables.HashedStorage, {address}, {})

\* an account is destroyed together with its storage
DeleteAccount ==
    \E address \in Addresses :
        /\ keccak256(address) \in DOMAIN tables.HashedAccount
        /\ Executed(MapRemove(tables.HashedAccount, keccak256(address)),
                    {e \in tables.HashedStorage : e.address # keccak256(address)},
                    {address},
                    {<<address, k>> : k \in {s \in StorageSlots :
                        \E e \in tables.HashedStorage :
                            e.address = keccak256(address) /\ e.key = keccak256(s)}})

\* a slot of an existing account is written with a non-zero value
PutStorage ==
    \E address \in Addresses, slot \in StorageSlots, value \in StorageValues :
        /\ keccak256(address) \in DOMAIN tables.HashedAccount
        /\ StorageEntry(keccak256(address), keccak256(slot), value) \notin tables.HashedStorage
        /\ Executed(tables.HashedAccount,
                    {e \in tables.HashedStorage :
                         ~(e.address = keccak256(address) /\ e.key = keccak256(slot))}
                    \cup {StorageEntry(keccak256(address), keccak256(slot), value)},
                    {}, {<<address, slot>>})

\* a slot of an existing account is zeroed
DeleteStorage ==
    \E address \in Addresses, slot \in StorageSlots :
        /\ \E e \in tables.HashedStorage :
               e.address = keccak256(address) /\ e.key = keccak256(slot)
        /\ Executed(tables.HashedAccount,
                    {e \in tables.HashedStorage :
                         ~(e.address = keccak256(address) /\ e.key = keccak256(slot))},
                    {}, {<<address, slot>>})

TrieNext ==
    \/ CalculateRoot
    \/ UpdateRoot
    \/ PutAccount
    \/ DeleteAccount
    \/ PutStorage
    \/ DeleteStorage

\* the loader and the executed transitions
TrieSpec == TrieInit /\ [][TrieNext]_vars

\* calculate_root alone, on every snapshot
CalculateSpec == TrieInit /\ [][CalculateRoot]_vars

\* the caller of calculate_root calls again after every InProgress
CalculateLiveSpec == TrieInit /\ [][CalculateRoot]_vars /\ WF_vars(CalculateRoot)

\* accounts without storage are written, and the caller of update_root uses
\* commit_threshold = 1 and calls again after every InProgress
UpdateOneInit == TrieInit /\ tables.HashedStorage = {}

UpdateOneNext ==
    \/ CalculateRoot
    \/ PutAccount
    \/ UpdateRootOne

UpdateOneSpec == UpdateOneInit /\ [][UpdateOneNext]_vars /\ WF_vars(UpdateRootOne)

\* the loader and the executed transitions on the snapshots where the account
\* of 0x10 alone has storage
UpdateInit == TrieInit /\ \A e \in tables.HashedStorage : e.address = keccak256(10)

UpdateSpec == UpdateInit /\ [][TrieNext]_vars

\* the snapshots with an account that has code: the account of 0x20
CodeSnapshots ==
    {[t EXCEPT !.HashedAccount =
          [a \in DOMAIN @ |-> IF a = keccak256(20) THEN Account(2, Some("code")) ELSE @[a]]] :
       t \in Snapshots}

ProofInit ==
    /\ BlockchainTreeNew(1, 2, 0)
    /\ tables \in CodeSnapshots
    /\ loader = LoaderCounters(DBTrieLoaderNew(tables))
    /\ progress = NoProgress
    /\ query = NoQuery

\* a read of the tables has returned ret; a read leaves the tables as they
\* are, so the reads are followed one at a time from each written state
Asked(op, root, address, keys, ret) ==
    /\ query.op = "none"
    /\ query' = MkQuery(op, root, address, keys, ret)
    /\ UNCHANGED <<tables, loader, progress>>
    /\ UNCHANGED tree_vars

\* the account roots a caller asks for: the rows of AccountsTrie, the root the
\* loader returned, the root of the empty trie
AskedAccountRoots == tables.AccountsTrie \cup progress.root \cup {EMPTY_ROOT}

\* the storage nodes a caller asks for: the tries over any slots
AskedStorageNodes == {[k \in ks |-> 1] : ks \in SUBSET HashedSlots}

GenerateAccountProof ==
    \E root \in AskedAccountRoots, address \in HashedAddresses :
        Asked("generate_acount_proof", root, address, <<>>,
              generate_acount_proof(DBTrieLoaderNew(tables), root, address))

GenerateStorageProofs ==
    \E storage_root \in AskedStorageNodes, address \in HashedAddresses, key \in HashedSlots :
        Asked("generate_storage_proofs", storage_root, address, <<key>>,
              generate_storage_proofs(DBTrieLoaderNew(tables), storage_root, address, <<key>>))

HashDatabaseMutGet ==
    \E key \in AskedAccountRoots :
        Asked("HashDatabaseMut::get", key, H256Zero, <<>>,
              HashDatabaseMut_get(DBTrieLoaderNew(tables), key))

HashDatabaseGet ==
    \E key \in AskedAccountRoots :
        Asked("HashDatabase::get", key, H256Zero, <<>>,
              HashDatabase_get(DBTrieLoaderNew(tables), key))

DupHashDatabaseMutGet ==
    \E key \in AskedStorageNodes, address \in HashedAddresses :
        Asked("DupHashDatabaseMut::get", key, address, <<>>,
              DupHashDatabaseMut_get(DBTrieLoaderNew(tables), address, key))

DupHashDatabaseGet ==
    \E key \in AskedStorageNodes, address \in HashedAddresses :
        Asked("DupHashDatabase::get", key, address, <<>>,
              DupHashDatabase_get(DBTrieLoaderNew(tables), address, key))

ProofNext ==
    \/ CalculateRoot
    \/ GenerateAccountProof
    \/ GenerateStorageProofs
    \/ HashDatabaseMutGet
    \/ HashDatabaseGet
    \/ DupHashDatabaseMutGet
    \/ DupHashDatabaseGet

\* calculate_root on every snapshot, and the reads of the trie tables
ProofSpec == ProofInit /\ [][ProofNext]_vars

\* gather_changes over any range of the executed transitions and the next one
GatherChanges ==
    \E start \in 1..(MaxTransition + 1), end \in 1..(MaxTransition + 1) :
        /\ start <= end
        /\ Asked("gather_changes", EMPTY_ROOT, H256Zero, <<start, end>>,
                 gather_changes(DBTrieLoaderNew(tables), TidRange(start, end)))

GatherNext ==
    \/ CalculateRoot
    \/ PutAccount
    \/ DeleteAccount
    \/ PutStorage
    \/ DeleteStorage
    \/ GatherChanges

\* the executed transitions and the change sets gathered over them
GatherSpec == UpdateOneInit /\ [][GatherNext]_vars

\* a caller stores a checkpoint of its own through the public save_checkpoint
\* (822) with a fresh loader: any combination of a root that has a row in
\* AccountsTrie and an account of HashedAccount, each present or absent
SaveCheckpoint ==
    \E account_root \in {None} \cup {Some(r) : r \in tables.AccountsTrie},
       hashed_address \in {None} \cup {Some(a) : a \in DOMAIN tables.HashedAccount} :
        /\ Healthy
        /\ progress.op \in {"none", "calculate_root"}
        /\ \E s \in {save_checkpoint(DBTrieLoaderNew(tables),
                                     ProofCheckpoint(account_root, hashed_address,
                                                     None, None))} :
               /\ tables' = s.tx
               /\ loader' = LoaderCounters(s)
        /\ progress' = [progress EXCEPT !.op = "save_checkpoint"]
        /\ query' = NoQuery
        /\ UNCHANGED tree_vars

\* a loader call runs to its return with commit_threshold = 1 and the caller
\* drops the transaction instead of committing it: the loader is left with
\* its counters, the tables are those of the last commit
Dropped ==
    /\ Healthy
    /\ \E r \in (IF progress.op \in {"none", "calculate_root"}
                 THEN {calculate_root(new_with_threshold(tables, 1))}
                 ELSE {})
               \cup
               (IF progress.root # None /\ (Resuming => progress.op = "update_root")
                THEN {update_root(new_with_threshold(tables, 1), unwrap(progress.root),
                                  TidRange(progress.first_tid, progress.next_tid))}
                ELSE {}) :
           /\ r.ret.kind # "Err"
           /\ loader' = LoaderCounters(r.self)
    /\ UNCHANGED <<tables, progress, query>>
    /\ UNCHANGED tree_vars

DropNext ==
    \/ TrieNext
    \/ Dropped

\* the loader, the executed transitions and transactions that are dropped
DropSpec == UpdateInit /\ [][DropNext]_vars

CheckpointNext ==
    \/ CalculateRoot
    \/ SaveCheckpoint

\* calculate_root over checkpoints of the loader and of its caller
CheckpointSpec == TrieInit /\ [][CheckpointNext]_vars

----------------------------------------------------------------------------
\* Vocabulary of the properties

b2c == block_indices.blocks_to_chain

\* the last call returned to its caller
Returned == result.ret \notin {"Panic", "Diverged"}

\* hashes held by some chain
PendingHashes == UNION {ChainHashes(chains[c]) : c \in DOMAIN chains}

----------------------------------------------------------------------------
C2_ForkBlockAnchored ==
    Returned =>
      \A c \in DOMAIN chains :
        LET fb == chains[c].fork_block
        IN \/ \E o \in (DOMAIN chains) \ {c} : fb.hash \in ChainHashes(chains[o])
           \/ canonical_hash(block_indices, fb.number) = {fb.hash}

\* C3: right after finalize_block(n) no chain holds a block numbered <= n.
C3_NoFinalizedBlockPending ==
    result.op = "finalize_block" =>
      \A c \in DOMAIN chains : \A k \in ChainNumbers(chains[c]) : k > result.number

\* C4: make_canonical of a hash of the canonical window returns Ok and changes
\* neither the tree nor the database.
C4_CanonicalIsNoop ==
    [][(result'.op = "make_canonical"
        /\ is_block_hash_canonical(block_indices, result'.hash))
       => (result'.ret = "Ok"
           /\ UNCHANGED <<chains, block_indices, chain_id_generator, db>>)]_vars

----------------------------------------------------------------------------
\* Ancestry by header: what a promotion of h has to make canonical

\* the nearest ancestor of h (h included) that the window holds at its number
RECURSIVE AnchorOf(_, _)
AnchorOf(bi, h) ==
    IF h \notin Blocks THEN DefaultForkBlock
    ELSE IF canonical_hash(bi, number(h)) = {h} THEN ForkBlock(number(h), h)
    ELSE AnchorOf(bi, parent_hash(h))

\* h and its ancestors above that anchor
RECURSIVE AncestorsAbove(_, _)
AncestorsAbove(bi, h) ==
    IF h \notin Blocks \/ canonical_hash(bi, number(h)) = {h} THEN {}
    ELSE {h} \cup AncestorsAbove(bi, parent_hash(h))

\* the canonical blocks the database holds above number n
DbAbove(d, n) == {d.canonical_headers[k] : k \in {j \in DOMAIN d.canonical_headers : j > n}}

\* the canonical blocks the window holds above number n
WindowAbove(bi, n) == {bi.canonical_chain[k] : k \in {j \in DOMAIN bi.canonical_chain : j > n}}

\* C5: make_canonical(h) of a pending h that returns Ok leaves h as canonical
\* tip, h and its ancestors above the anchor in the window and as the only
\* database blocks above the anchor, and none of them pending or indexed.
C5_PromotedBecomesCanonical ==
    [][(result'.op = "make_canonical" /\ result'.hash \in PendingHashes
        /\ result'.ret = "Ok")
       => LET h == result'.hash
              P == AncestorsAbove(block_indices, h)
              F == AnchorOf(block_indices, h)
          IN /\ canonical_tip(block_indices').hash = h
             /\ \A b \in P : canonical_hash(block_indices', number(b)) = {b}
             /\ DbAbove(db', F.number) = P
             /\ P \cap PendingHashes' = {}
             /\ P \cap DOMAIN b2c' = {}]_vars

\* C6: a reorging make_canonical that returns Ok puts every formerly canonical
\* block above the fork block F into one side chain with a fresh id, anchored
\* at F, and indexes each of them.
C6_RevertedChainKept ==
    [][(result'.op = "make_canonical" /\ result'.hash \in DOMAIN b2c
        /\ result'.ret = "Ok"
        /\ AnchorOf(block_indices, result'.hash).hash # canonical_tip(block_indices).hash)
       => LET F == AnchorOf(block_indices, result'.hash)
              old == WindowAbove(block_indices, F.number)
          IN \E c \in (DOMAIN chains') \ (DOMAIN chains) :
                /\ c >= chain_id_generator
                /\ ChainHashes(chains'[c]) = old
                /\ chains'[c].fork_block = F
                /\ \A b \in old : b \in DOMAIN b2c' /\ b2c'[b] = c]_vars

\* C7: a make_canonical call never leaves the database with a canonical block
\* removed or replaced while the hash it was to make canonical is not written.
C7_ReorgIsOneTransaction ==
    [][result'.op = "make_canonical"
       => ~(/\ \E n \in DOMAIN db.canonical_headers :
                  \/ n \notin DOMAIN db'.canonical_headers
                  \/ db'.canonical_headers[n] # db.canonical_headers[n]
            /\ result'.hash \notin Range(db'.canonical_headers))]_vars

\* C8: commit_canonical of a pending chain over the database either fails and
\* leaves the committed database as it was, or succeeds and shows every block
\* of the chain together with the chain's tip number as stage progress.
C8_CommitAllOrNothing ==
    \A c \in DOMAIN chains : \A fail \in Failures :
        LET chain == chains[c]
            r == commit_canonical(db, chain, fail)
        IN IF r.ret = "Ok"
           THEN /\ \A n \in ChainNumbers(chain) :
                      /\ n \in DOMAIN r.db.canonical_headers
                      /\ r.db.canonical_headers[n] = chain.blocks[n]
                /\ r.db.stage_progress = number(tip(chain))
           ELSE r.db = db

\* a make_canonical whose commit failed: the window names the hash, the database
\* does not hold it
C8_Witness ==
    /\ result.op = "make_canonical"
    /\ result.ret = "Err(Database)"
    /\ is_block_hash_canonical(block_indices, result.hash)
    /\ result.hash \notin Range(db.canonical_headers)
    /\ chains # EmptyMap

\* C9: insert_block of a block numbered at or below last_finalized_block
\* returns PendingBlockIsFinalized and changes nothing, whether or not the tree
\* knows the block.
C9_FinalizedRejectedFirst ==
    [][(result'.op = "insert_block"
        /\ number(result'.hash) <= block_indices.last_finalized_block)
       => (/\ result'.ret = "Err(PendingBlockIsFinalized)"
           /\ UNCHANGED <<chains, block_indices, chain_id_generator, db>>)]_vars

\* a canonical block of the window was offered and refused as finalized
C9_Witness ==
    /\ result.op = "insert_block"
    /\ result.ret = "Err(PendingBlockIsFinalized)"
    /\ canonical_hash(block_indices, result.number) = {result.hash}

\* C10: insert_block of a block numbered above last_finalized_block +
\* num_of_side_chain_max_size returns PendingBlockIsInFuture with the block's
\* number and hash and last_finalized_block and changes nothing; a block
\* numbered exactly last_finalized_block + num_of_side_chain_max_size is not
\* refused that way.
C10_FutureRejected ==
    [][result'.op = "insert_block"
       => LET lf == block_indices.last_finalized_block
              n == number(result'.hash)
          IN /\ n > lf + num_of_side_chain_max_size
                  => /\ result'.ret = "Err(PendingBlockIsInFuture)"
                     /\ result'.err = [block_number |-> n, block_hash |-> result'.hash,
                                       last_finalized |-> lf]
                     /\ UNCHANGED <<chains, block_indices, chain_id_generator, db>>
             /\ n = lf + num_of_side_chain_max_size
                  => result'.ret # "Err(PendingBlockIsInFuture)"]_vars

\* a block two above the admissible range was refused
C10_Witness ==
    /\ result.op = "insert_block"
    /\ result.ret = "Err(PendingBlockIsInFuture)"
    /\ result.number > block_indices.last_finalized_block + num_of_side_chain_max_size
    /\ result.err.last_finalized = block_indices.last_finalized_block

\* the number of the block lies in (last_finalized_block,
\* last_finalized_block + num_of_side_chain_max_size]
Admissible(h) ==
    /\ number(h) > block_indices.last_finalized_block
    /\ number(h) <= block_indices.last_finalized_block + num_of_side_chain_max_size

\* C11: insert_block of an admissible block that blocks_to_chain already maps,
\* or that is the canonical hash at its number, returns Ok(true) whatever the
\* executor would answer, and changes neither chains, block_indices nor
\* chain_id_generator.
C11_KnownBlockIsNoop ==
    [][(/\ result'.op = "insert_block"
        /\ Admissible(result'.hash)
        /\ \/ result'.hash \in DOMAIN b2c
           \/ canonical_hash(block_indices, number(result'.hash)) = {result'.hash})
       => (/\ result'.ret = "Ok(true)"
           /\ UNCHANGED <<chains, block_indices, chain_id_generator>>)]_vars

\* an admissible canonical block was offered and answered Ok(true)
C11_Witness ==
    /\ result.op = "insert_block"
    /\ result.ret = "Ok(true)"
    /\ Admissible(result.hash)
    /\ canonical_hash(block_indices, result.number) = {result.hash}

\* C12: insert_block of an admissible block that no chain holds and that is
\* not canonical, whose parent no chain holds and the window does not hold at
\* the number below, returns Ok(false) and changes neither chains,
\* block_indices nor chain_id_generator.
C12_UnknownParentIsOkFalse ==
    [][(/\ result'.op = "insert_block"
        /\ Admissible(result'.hash)
        /\ result'.hash \notin PendingHashes \cup DOMAIN b2c
        /\ canonical_hash(block_indices, number(result'.hash)) # {result'.hash}
        /\ parent_hash(result'.hash) \notin PendingHashes
        /\ canonical_hash(block_indices, number(result'.hash) - 1)
              # {parent_hash(result'.hash)})
       => (/\ result'.ret = "Ok(false)"
           /\ UNCHANGED <<chains, block_indices, chain_id_generator>>)]_vars

\* a block whose parent is nowhere was offered and answered Ok(false)
C12_Witness ==
    /\ result.op = "insert_block"
    /\ result.ret = "Ok(false)"
    /\ parent_hash(result.hash) \notin PendingHashes
    /\ ~is_block_hash_canonical(block_indices, parent_hash(result.hash))

\* C13: in every reachable state, for every block whose insertion would change
\* the tree if consensus and execution succeeded, insert_block with either of
\* them failing returns that error and leaves chains, block_indices and
\* chain_id_generator as they were; no failing insert_block changes the tree.
C13_FailedExecutionLeavesTree ==
    \A block \in OfferedBlocks : \A outcome \in Outcomes \ {"Ok"} :
        LET r == insert_block_with_senders(Tree, db, block, outcome,
                                           num_of_side_chain_max_size)
            ok == insert_block_with_senders(Tree, db, block, "Ok",
                                            num_of_side_chain_max_size)
        IN /\ r.tree = Tree
           /\ ok.tree # Tree => r.ret = "Err(" \o outcome \o ")"

\* the execution of a block offered on top of a pending block failed
C13_Witness ==
    /\ result.op = "insert_block"
    /\ result.ret = "Err(ExecutionFailure)"
    /\ \E c \in DOMAIN chains : tip(chains[c]) = parent_hash(result.hash)

\* C14: make_canonical of a hash that blocks_to_chain does not map and the
\* window does not hold returns BlockHashNotFoundInChain and changes neither
\* the tree nor the database.
C14_UnknownHashRejected ==
    [][(/\ result'.op = "make_canonical"
        /\ result'.hash \notin DOMAIN b2c
        /\ ~is_block_hash_canonical(block_indices, result'.hash))
       => (/\ result'.ret = "Err(BlockHashNotFoundInChain)"
           /\ UNCHANGED <<chains, block_indices, chain_id_generator, db>>)]_vars

\* make_canonical was refused for a hash while other blocks are pending
C14_Witness ==
    /\ result.op = "make_canonical"
    /\ result.ret = "Err(BlockHashNotFoundInChain)"
    /\ result.hash \notin DOMAIN b2c
    /\ chains # EmptyMap

\* the chains of cs together with every chain forked, directly or through other
\* chains, off a block of theirs
RECURSIVE AttachedChains(_)
AttachedChains(cs) ==
    LET held == UNION {ChainHashes(chains[c]) : c \in cs}
        more == {c \in DOMAIN chains : chains[c].fork_block.hash \in held}
    IN IF more \subseteq cs THEN cs ELSE AttachedChains(cs \cup more)

C16_ChildOfFinalizedAdmitted ==
    [][/\ (result'.op = "finalize_block"
            /\ result'.number \in DOMAIN block_indices.canonical_chain)
          => canonical_hash(block_indices', result'.number)
               = canonical_hash(block_indices, result'.number)
       /\ (/\ result.op = "finalize_block"
           /\ result'.op = "insert_block"
           /\ number(result'.hash) = result.number + 1
           /\ result'.hash \notin PendingHashes \cup DOMAIN b2c
           /\ canonical_hash(block_indices, number(result'.hash)) # {result'.hash}
           /\ canonical_hash(block_indices, result.number) = {parent_hash(result'.hash)})
          => /\ result'.ret \in {"Ok(true)", "Err(ConsensusFailure)", "Err(ExecutionFailure)"}
             /\ result'.ret = "Ok(true)" =>
                   \E c \in (DOMAIN chains') \ (DOMAIN chains) :
                      /\ ChainHashes(chains'[c]) = {result'.hash}
                      /\ chains'[c].fork_block
                            = ForkBlock(result.number, parent_hash(result'.hash))]_vars

----------------------------------------------------------------------------
\* Properties of the trie loader

\* the hashed state and change sets of t with empty trie tables and no checkpoint
Unhashed(t) ==
    [t EXCEPT !.AccountsTrie = {}, !.StoragesTrie = {}, !.SyncStageProgress = None]

\* what one calculate_root call that never hits its threshold returns on the
\* hashed state of t
single_shot(t) == calculate_root(DBTrieLoaderNew(Unhashed(t))).ret

\* the last loader call was op and returned kind
Returns(op, kind) == progress.op = op /\ progress.ret.kind = kind

\* C17: calculate_root called with fresh loaders of any thresholds, committing
\* after every InProgress and resuming from the persisted checkpoint, never fails
\* and, when it returns Complete, returns the root a single call that never hits
\* the threshold returns on the same HashedAccount and HashedStorage.
C17_ResumedRootIsSingleShotRoot ==
    /\ ~Returns("calculate_root", "Err")
    /\ Returns("calculate_root", "Complete") => progress.ret = single_shot(tables)

\* a computation interrupted after an account and between two slots has completed
C17_Witness ==
    /\ Returns("calculate_root", "Complete")
    /\ progress.interruptions = {"account", "storage"}
    /\ loader.commit_threshold >= 1

\* C18: update_root(previous_root, range), run until it returns Complete in
\* one call or across InProgress returns, never fails and returns the root
\* calculate_root returns from scratch on the mutated hashed state; the change
\* sets of the range name every account and slot executed since previous_root.
C18_UpdateEqualsCalculate ==
    /\ ~Returns("update_root", "Err")
    /\ Returns("update_root", "Complete") => progress.ret = single_shot(tables)

\* C19: update_root called with commit_threshold = 1 and called again after
\* every InProgress eventually returns Complete.
C19_UpdateCompletes ==
    Returns("update_root", "InProgress") ~> Returns("update_root", "Complete")

\* the accounts and slots the partial tries of a checkpoint hold: the accounts
\* of account_root with the slots of their storage roots, and the slots of the
\* in-progress storage_root
InsertedUpTo(checkpoint) ==
    LET account_root == unwrap_or(checkpoint.account_root, EMPTY_ROOT)
        storage_root == unwrap_or(checkpoint.storage_root, EMPTY_ROOT)
    IN {<<a>> : a \in DOMAIN account_root}
       \cup UNION {{<<a, k>> : k \in DOMAIN account_root[a].storage_root} :
                      a \in DOMAIN account_root}
       \cup {<<unwrap(checkpoint.hashed_address), k>> : k \in DOMAIN storage_root}

\* the checkpoint persisted in the tables
Persisted == get_checkpoint(DBTrieLoaderNew(tables))

\* C20: calculate_root called with fresh loaders of any thresholds (0 and 1
\* included) and called again after every InProgress eventually returns
\* Complete; every call that returns InProgress has inserted an account or a
\* slot that the partial tries of the earlier calls did not hold, and lost none.
C20_CalculateCompletes ==
    /\ [][(progress'.op = "calculate_root" /\ progress'.ret.kind = "InProgress")
            => /\ InsertedUpTo(Persisted) \subseteq InsertedUpTo(Persisted')
               /\ InsertedUpTo(Persisted') # InsertedUpTo(Persisted)]_vars
    /\ Returns("calculate_root", "InProgress") ~> Returns("calculate_root", "Complete")

\* a computation interrupted after an account and between two slots has
\* completed in a call with commit_threshold = 0
C20_Witness ==
    /\ Returns("calculate_root", "Complete")
    /\ progress.interruptions = {"account", "storage"}
    /\ loader.commit_threshold = 0

\* the hashed addresses of the change sets an update_root call is given
ChangedInRange ==
    DOMAIN gather_changes(DBTrieLoaderNew(tables),
                          TidRange(progress.first_tid, progress.next_tid))

\* C21: when update_root returns Complete(root), a hashed address of its change
\* sets that HashedAccount no longer holds has no leaf in the trie at root.
C21_DeletedAccountOmitted ==
    [][(progress'.op = "update_root" /\ progress'.ret.kind = "Complete")
         => \A hashed_address \in ChangedInRange :
                hashed_address \notin DOMAIN tables'.HashedAccount
                    => trie_get(progress'.ret.root, hashed_address) = None]_vars

\* the root of the storage trie of the HashedStorage entries of hashed_address
StorageRootOf(t, hashed_address) ==
    LET entries == {e \in t.HashedStorage : e.address = hashed_address}
    IN [k \in {e.key : e \in entries} |-> (CHOOSE e \in entries : e.key = k).value]

\* the EthAccount of hashed_address in the hashed state
EthAccountOf(t, hashed_address) ==
    LET A == t.HashedAccount[hashed_address]
    IN [nonce |-> A.nonce,
        balance |-> A.balance,
        storage_root |-> StorageRootOf(t, hashed_address),
        code_hash |-> IF A.bytecode_hash = None THEN KECCAK_EMPTY ELSE unwrap(A.bytecode_hash)]

\* the last read was op
Asks(op) == query.op = op

\* C22: after calculate_root returned Complete(root), generate_acount_proof(root,
\* A) for an account A of HashedAccount returns the leaf of A's nonce, balance,
\* code_hash (KECCAK_EMPTY without bytecode) and the root of A's HashedStorage
\* entries (EMPTY_ROOT without any), and returns that storage root.
C22_LeafIsHashedAccount ==
    (/\ Returns("calculate_root", "Complete")
     /\ Asks("generate_acount_proof")
     /\ query.root = progress.ret.root
     /\ query.address \in DOMAIN tables.HashedAccount)
    => query.ret = Ok(<<Some(EthAccountOf(tables, query.address)),
                        StorageRootOf(tables, query.address)>>)

\* the proof of an account with code and storage, from a root computed with
\* interruptions
C22_Witness ==
    /\ Returns("calculate_root", "Complete")
    /\ progress.interruptions = {"account", "storage"}
    /\ Asks("generate_acount_proof")
    /\ query.root = progress.ret.root
    /\ query.address \in DOMAIN tables.HashedAccount
    /\ tables.HashedAccount[query.address].bytecode_hash # None
    /\ StorageRootOf(tables, query.address) # EMPTY_ROOT

\* C23: get(key) of each of the four adapters returns the node stored under
\* exactly that key (for the storage adapters: the entry of the adapter's account
\* whose hash is key), and nothing when no such entry exists.
C23_GetIsExact ==
    /\ (Asks("HashDatabaseMut::get") \/ Asks("HashDatabase::get"))
           => query.ret = IF query.root \in tables.AccountsTrie
                          THEN Some(query.root) ELSE None
    /\ (Asks("DupHashDatabaseMut::get") \/ Asks("DupHashDatabase::get"))
           => query.ret = IF StorageTrieEntry(query.address, query.root) \in tables.StoragesTrie
                          THEN Some(query.root) ELSE None

\* C24 as stated: AccountsTrie has no row with key EMPTY_ROOT and no
\* StoragesTrie entry has hash EMPTY_ROOT.
C24_EmptyRootNeverPersisted ==
    /\ EMPTY_ROOT \notin tables.AccountsTrie
    /\ \A e \in tables.StoragesTrie : e[2] # EMPTY_ROOT

\* C24 amended: no StoragesTrie entry has hash EMPTY_ROOT; AccountsTrie holds
\* the row of EMPTY_ROOT, written by HashDatabaseMut::new, exactly when the
\* root calculate_root or update_root completed with is EMPTY_ROOT.
C24_EmptyRootRowOnlyOfEmptyAccountTrie ==
    /\ \A e \in tables.StoragesTrie : e[2] # EMPTY_ROOT
    /\ (Returns("calculate_root", "Complete") \/ Returns("update_root", "Complete"))
           => (EMPTY_ROOT \in tables.AccountsTrie <=> progress.ret.root = EMPTY_ROOT)

\* calculate_root completed on a state without accounts: the sentinel row
\* HashDatabaseMut::new wrote is the row of the root
C24_Witness ==
    /\ Returns("calculate_root", "Complete")
    /\ progress.ret.root = EMPTY_ROOT
    /\ tables.AccountsTrie = {EMPTY_ROOT}

\* C25: generate_storage_proofs(storage_root, hashed_address, keys) fails with
\* MissingStorageRoot whenever StoragesTrie has no entry of hashed_address with
\* hash storage_root, whatever other entries the account has.
C25_MissingStorageRoot ==
    (/\ Asks("generate_storage_proofs")
     /\ StorageTrieEntry(query.address, query.root) \notin tables.StoragesTrie)
    => query.ret = Err("MissingStorageRoot")

\* the last loader call was calculate_root or update_root and returned kind
LoaderReturns(kind) == Returns("calculate_root", kind) \/ Returns("update_root", kind)

\* C26: when calculate_root or update_root returns Complete, the persisted
\* checkpoint is the empty one; when either returns InProgress(c), the persisted
\* checkpoint is c, and c has account_root and hashed_address.
C26_CheckpointLifecycle ==
    /\ LoaderReturns("Complete") =>
           tables.SyncStageProgress = Some(ProofCheckpointDefault)
    /\ LoaderReturns("InProgress") =>
           /\ tables.SyncStageProgress = Some(progress.ret.checkpoint)
           /\ progress.ret.checkpoint.account_root # None
           /\ progress.ret.checkpoint.hashed_address # None

\* update_root, interrupted between two slots, has completed and cleared the
\* checkpoint
C26_Witness ==
    /\ Returns("update_root", "Complete")
    /\ "storage" \in progress.interruptions
    /\ Persisted = ProofCheckpointDefault

\* C27: generate_acount_proof(root, hashed_address) returns KECCAK_EMPTY as the
\* storage root when the trie at root has no leaf for hashed_address, and the
\* storage_root of the leaf otherwise: EMPTY_ROOT for an account without storage,
\* another value for an account with storage.
C27_ProofStorageRoot ==
    (/\ Asks("generate_acount_proof")
     /\ query.root \in tables.AccountsTrie)
    => /\ query.ret.kind = "Ok"
       /\ LET leaf == trie_get(query.root, query.address)
              storage_root == query.ret.value[2]
          IN /\ leaf = None => storage_root = KECCAK_EMPTY
             /\ leaf # None => storage_root = unwrap(leaf).storage_root
             /\ (/\ Returns("calculate_root", "Complete")
                 /\ query.root = progress.ret.root
                 /\ leaf # None)
                => (storage_root = EMPTY_ROOT
                        <=> seek_by_key_subkey(tables.HashedStorage, query.address,
                                               H256Zero) = None)

\* a proof of absence from a root that has a leaf for another account
C27_Witness ==
    /\ Asks("generate_acount_proof")
    /\ query.root \in tables.AccountsTrie
    /\ query.root # EMPTY_ROOT
    /\ trie_get(query.root, query.address) = None
    /\ query.ret = Ok(<<None, KECCAK_EMPTY>>)

\* the transitions of start..end, end excluded
Transitions(range) == {t \in 1..(MaxTransition + 1) : range[1] <= t /\ t < range[2]}

\* C28: gather_changes(start..end) returns the map whose keys are keccak256 of
\* the addresses with an AccountChangeSet or StorageChangeSet entry at a
\* transition of start..end, each mapped to keccak256 of the storage keys of that
\* address's StorageChangeSet entries in the range, and nothing else.
C28_GatherChangesExact ==
    Asks("gather_changes") =>
        LET tids == Transitions(query.keys)
            changed(a) ==
                \/ \E t \in tids : <<t, a>> \in tables.AccountChangeSet
                \/ \E t \in tids, k \in StorageSlots : <<t, a, k>> \in tables.StorageChangeSet
            slots(a) == {k \in StorageSlots :
                            \E t \in tids : <<t, a, k>> \in tables.StorageChangeSet}
        IN /\ DOMAIN query.ret = {keccak256(a) : a \in {b \in Addresses : changed(b)}}
           /\ \A a \in Addresses :
                  changed(a) => query.ret[keccak256(a)] = {keccak256(k) : k \in slots(a)}

\* changes gathered over the second transition alone, an account change in the
\* first and a storage change in the second
C28_Witness ==
    /\ Asks("gather_changes")
    /\ query.keys = <<2, 3>>
    /\ \E a \in Addresses : <<1, a>> \in tables.AccountChangeSet
    /\ \E a \in Addresses, k \in StorageSlots : <<2, a, k>> \in tables.StorageChangeSet
    /\ \E h \in DOMAIN query.ret : query.ret[h] # {}

----------------------------------------------------------------------------
\* Properties of the tree: side chains

\* insert_block of a block that no chain holds, that is not indexed and not
\* canonical, and whose parent is indexed to a pending chain, has returned Ok(true)
InsertedOnSideChain ==
    /\ result'.op = "insert_block"
    /\ result'.ret = "Ok(true)"
    /\ result'.hash \notin PendingHashes \cup DOMAIN b2c
    /\ canonical_hash(block_indices, number(result'.hash)) # {result'.hash}
    /\ parent_hash(result'.hash) \in DOMAIN b2c
    /\ b2c[parent_hash(result'.hash)] \in DOMAIN chains

\* C29: insert_block of a new block whose parent is the tip of a side chain
\* extends that chain in place: the chain ids, chain_id_generator and
\* fork_to_child are unchanged and the block is indexed under the parent
\* chain's id. If the parent is a non-tip block of a side chain, exactly one
\* chain is added, under a fresh id, holding the block alone, with the parent
\* as its fork block.
C29_TipExtendsInPlace ==
    [][InsertedOnSideChain =>
         LET block == result'.hash
             chain_id == b2c[parent_hash(block)]
         IN IF tip(chains[chain_id]) = parent_hash(block)
            THEN /\ DOMAIN chains' = DOMAIN chains
                 /\ chain_id_generator' = chain_id_generator
                 /\ block_indices'.fork_to_child = block_indices.fork_to_child
                 /\ ChainHashes(chains'[chain_id]) = ChainHashes(chains[chain_id]) \cup {block}
                 /\ block \in DOMAIN block_indices'.blocks_to_chain
                 /\ block_indices'.blocks_to_chain[block] = chain_id
            ELSE /\ DOMAIN chains' = DOMAIN chains \cup {chain_id_generator}
                 /\ chain_id_generator \notin DOMAIN chains
                 /\ chain_id_generator' = chain_id_generator + 1
                 /\ ChainHashes(chains'[chain_id_generator]) = {block}
                 /\ chains'[chain_id_generator].fork_block
                        = ForkBlock(number(block) - 1, parent_hash(block))
                 /\ \A c \in DOMAIN chains : chains'[c] = chains[c]]_vars

\* the chains make_canonical promotes from, each with the number of its topmost
\* promoted block: chain_id up to number n, then the chain holding its fork
\* block up to the fork block, and so on down to the canonical chain
RECURSIVE PromotedFrom(_, _)
PromotedFrom(chain_id, n) ==
    LET fork == chains[chain_id].fork_block
        parents == {c \in DOMAIN chains : fork.hash \in ChainHashes(chains[c])}
    IN {<<chain_id, n>>}
       \cup UNION {PromotedFrom(c, fork.number) : c \in {p \in parents : fork.number < n}}

\* C30: when make_canonical(h) promotes only the lower part of a chain (h is not
\* its tip, or the promoted child forked off below its tip), the blocks above
\* stay pending under the same chain id, anchored at the topmost promoted block
\* of that chain, and indexed to that id.
C30_ResidualStaysPending ==
    [][(/\ result'.op = "make_canonical"
        /\ result'.ret = "Ok"
        /\ result'.hash \in DOMAIN b2c
        /\ b2c[result'.hash] \in DOMAIN chains
        /\ result'.hash \in ChainHashes(chains[b2c[result'.hash]]))
       => \A split \in PromotedFrom(b2c[result'.hash], number(result'.hash)) :
              LET chain == chains[split[1]]
                  above == {k \in DOMAIN chain.blocks : k > split[2]}
              IN (above # {} /\ split[2] \in DOMAIN chain.blocks)
                 => /\ split[1] \in DOMAIN chains'
                    /\ chains'[split[1]].blocks = Restrict(chain.blocks, above)
                    /\ chains'[split[1]].fork_block
                           = ForkBlock(split[2], chain.blocks[split[2]])
                    /\ \A k \in above :
                           /\ chain.blocks[k] \in DOMAIN block_indices'.blocks_to_chain
                           /\ block_indices'.blocks_to_chain[chain.blocks[k]] = split[1]]_vars

----------------------------------------------------------------------------
\* Properties of the tree: chain ids, construction, finalization

\* C31: chain ids are monotonic and never reused: every key of chains is
\* below chain_id_generator, the generator never decreases, and a chain id
\* that appears in chains in a step is one the generator handed out in that
\* step, so it is above every id handed out before and is not an id freed
\* by canonicalization or finalization.
C31_ChainIdsNeverReused ==
    [][/\ \A c \in DOMAIN chains' : c < chain_id_generator'
       /\ chain_id_generator' >= chain_id_generator
       /\ \A c \in (DOMAIN chains') \ (DOMAIN chains) :
             chain_id_generator <= c]_vars

\* chain id 0 is free again and a later id names a chain
C31_Witness ==
    /\ chain_id_generator >= 2
    /\ 0 \notin DOMAIN chains
    /\ (chain_id_generator - 1) \in DOMAIN chains
    /\ result.op \in {"insert_block", "make_canonical"}

\* C32: after BlockchainTree::new over a database whose canonical headers
\* are contiguous and more numerous than finalization_window,
\* last_finalized_block is the canonical tip number minus
\* finalization_window, whatever num_of_additional_canonical_block_hashes is.
C32_NewFinalizedIsTipMinusWindow ==
    LET numbers == DOMAIN db.canonical_headers
    IN (/\ result.op = "new"
        /\ numbers = Min(numbers)..Max(numbers)
        /\ Cardinality(numbers) > finalization_window)
       => block_indices.last_finalized_block = Max(numbers) - finalization_window

\* the in-memory canonical window
Window == block_indices.canonical_chain

----------------------------------------------------------------------------
\* Properties of the trie loader: checkpoints

\* what calculate_root does on the tables once both trie tables are cleared
calculate_root_cleared(t, commit_threshold) ==
    calculate_root(new_with_threshold(
        [t EXCEPT !.AccountsTrie = {}, !.StoragesTrie = {}], commit_threshold))

\* C34: calculate_root clears AccountsTrie and StoragesTrie exactly when the
\* loaded checkpoint has no account_root (the call leaves what a call on
\* cleared tables leaves), and resumes from the persisted partial trie,
\* clearing nothing, exactly when account_root is present (the call opens
\* the trie of that root and no row but the replaced roots is gone), for
\* every checkpoint that save_checkpoint can store.
C34_ClearsIffNoAccountRoot ==
    [][progress'.op = "calculate_root" =>
        LET checkpoint == Persisted
        IN IF checkpoint.account_root = None
           THEN LET cleared == calculate_root_cleared(tables, loader'.commit_threshold)
                IN /\ progress'.ret = cleared.ret
                   /\ tables' = cleared.self.tx
           ELSE /\ progress'.ret.kind # "Err"
                /\ tables.AccountsTrie \ checkpoint.account_root
                       \subseteq tables'.AccountsTrie
                /\ {e \in tables.StoragesTrie :
                        <<e[1], Some(e[2])>> #
                            <<unwrap_or(checkpoint.hashed_address, H256Zero),
                              checkpoint.storage_root>>}
                       \subseteq tables'.StoragesTrie]_vars

\* the changes update_root is working through: hashed address -> hashed slots
Changes ==
    gather_changes(DBTrieLoaderNew(tables), TidRange(progress.first_tid, progress.next_tid))

\* the account of the returned checkpoint was in the account trie when its
\* storage was interrupted: update_root took the update_storage_root branch
OnUpdateStoragePath(checkpoint) ==
    /\ progress.op = "update_root"
    /\ unwrap(checkpoint.hashed_address) \in DOMAIN unwrap(checkpoint.account_root)

\* C35: InProgress is returned only while unprocessed work remains, whatever
\* the commit_threshold: update_root does not return it after its last
\* changed account, update_storage_root returns it only with a changed slot
\* after the checkpointed one, and calculate_storage_root only with a slot of
\* HashedStorage that is not in the partial storage trie yet.
C35_InProgressLeavesWork ==
    LoaderReturns("InProgress") =>
        LET checkpoint == progress.ret.checkpoint
            hashed_address == unwrap(checkpoint.hashed_address)
        IN IF checkpoint.storage_key = None
           THEN progress.op = "update_root" =>
                    \E later \in DOMAIN Changes : later > hashed_address
           ELSE LET storage_key == unwrap(checkpoint.storage_key)
                IN IF OnUpdateStoragePath(checkpoint)
                   THEN \E later \in Changes[hashed_address] : later > storage_key
                   ELSE /\ storage_key \notin DOMAIN unwrap(checkpoint.storage_root)
                        /\ \E e \in tables.HashedStorage :
                               e.address = hashed_address /\ e.key = storage_key

\* update_root was interrupted between two changed slots of an account
\* that its trie already held
C35_Witness ==
    /\ Returns("update_root", "InProgress")
    /\ progress.ret.checkpoint.storage_key # None
    /\ OnUpdateStoragePath(progress.ret.checkpoint)

\* the slots of an account in HashedStorage: hashed key -> value
SlotsOf(t, hashed_address) ==
    LET entries == {e \in t.HashedStorage : e.address = hashed_address}
    IN [k \in {e.key : e \in entries} |->
           (CHOOSE e \in entries : e.key = k).value]

\* C36 as stated: in every persisted checkpoint with a storage_key, the
\* storage_key has already been inserted into the storage trie whose root
\* is the checkpoint's storage_root, on both paths.
C36_StorageKeyIsLastInserted ==
    Persisted.storage_key # None =>
        LET storage_key == unwrap(Persisted.storage_key)
            trie == unwrap(Persisted.storage_root)
            slots == SlotsOf(tables, unwrap(Persisted.hashed_address))
        IN /\ storage_key \in DOMAIN trie
           /\ storage_key \in DOMAIN slots
           /\ trie[storage_key] = slots[storage_key]

\* C36 amended: a checkpoint of update_storage_root names the last changed
\* slot it inserted (every changed slot up to it is in the trie of
\* storage_root as HashedStorage has it); a checkpoint of
\* calculate_storage_root names the next slot to insert (the trie of
\* storage_root holds exactly the slots of the account below it).
C36_StorageKeyIsCursorOfItsPath ==
    Persisted.storage_key # None =>
        LET storage_key == unwrap(Persisted.storage_key)
            trie == unwrap(Persisted.storage_root)
            hashed_address == unwrap(Persisted.hashed_address)
            slots == SlotsOf(tables, hashed_address)
        IN IF OnUpdateStoragePath(Persisted)
           THEN /\ storage_key \in Changes[hashed_address]
                /\ storage_key \in DOMAIN trie
                /\ \A k \in Changes[hashed_address] :
                       k <= storage_key =>
                           trie_get(trie, k) = trie_get(slots, k)
           ELSE /\ storage_key \in DOMAIN slots
                /\ trie = Restrict(slots, {k \in DOMAIN slots : k < storage_key})

\* calculate_storage_root was interrupted with two slots in the partial
\* trie and a third one named as storage_key
C36_Witness ==
    /\ Returns("calculate_root", "InProgress")
    /\ Persisted.storage_key # None
    /\ Cardinality(DOMAIN unwrap(Persisted.storage_root)) = 2

\* the StoragesTrie entries of one account
EntriesOf(t, hashed_address) == {e \in t.StoragesTrie : e[1] = hashed_address}

\* the storage roots replace_storage_root is tried with on the tables
ReplacedStorageRoots == {e[2] : e \in tables.StoragesTrie} \cup {EMPTY_ROOT}

\* C37: after replace_account_root, when the new root differs from
\* previous_root, AccountsTrie has no row keyed previous_root, so that
\* after update_root completes with a changed root generate_acount_proof for
\* the old root fails with MissingAccountRoot; after replace_storage_root
\* the previous root entry of the account is deleted iff the new root
\* differs from it and it is not EMPTY_ROOT, and the entries of other
\* accounts are untouched (also through a whole update_root call, for the
\* accounts without a change).
C37_RootReplacement ==
    [][/\ (progress'.op \in {"calculate_root", "update_root"} /\ progress'.ret.kind # "Err")
            => LET previous_root ==
                       unwrap_or(Persisted.account_root,
                                 IF progress'.op = "update_root" THEN unwrap(progress.root)
                                 ELSE EMPTY_ROOT)
                   new_root ==
                       IF progress'.ret.kind = "Complete" THEN progress'.ret.root
                       ELSE unwrap(progress'.ret.checkpoint.account_root)
               IN /\ new_root # previous_root => previous_root \notin tables'.AccountsTrie
                  /\ (/\ progress'.op = "update_root"
                      /\ progress'.ret.kind = "Complete"
                      /\ new_root # unwrap(progress.root))
                     => \A address \in HashedAddresses :
                            generate_acount_proof(DBTrieLoaderNew(tables'),
                                                  unwrap(progress.root), address)
                                = Err("MissingAccountRoot")
                  /\ progress'.op = "update_root"
                     => \A address \in HashedAddresses \ DOMAIN Changes :
                            EntriesOf(tables', address) = EntriesOf(tables, address)
       /\ \A address \in HashedAddresses, new_root \in ReplacedStorageRoots,
             previous_root \in ReplacedStorageRoots :
              LET replaced == replace_storage_root(DBTrieLoaderNew(tables), new_root,
                                                   address, previous_root).self.tx
                  previous == StorageTrieEntry(address, previous_root)
              IN /\ previous \in tables.StoragesTrie
                    => (previous \notin replaced.StoragesTrie
                          <=> (new_root # previous_root /\ previous_root # EMPTY_ROOT))
                 /\ replaced.StoragesTrie \subseteq tables.StoragesTrie
                 /\ \A other \in HashedAddresses \ {address} :
                        EntriesOf(replaced, other) = EntriesOf(tables, other)
                 /\ replaced.AccountsTrie = tables.AccountsTrie]_vars

\* update_root has completed over a transition that wrote a slot: the row
\* of the root it started from is gone and the storage root entry of the
\* account is the new one
C37_Witness ==
    /\ Returns("update_root", "Complete")
    /\ progress.first_tid > 1
    /\ tables.StorageChangeSet # {}
    /\ tables.AccountsTrie = {progress.ret.root}
    /\ \E e \in tables.StoragesTrie :
           e[2] = SlotsOf(tables, e[1]) /\ Cardinality(DOMAIN e[2]) = 2

\* the rows a checkpoint names are in the trie tables
SelfConsistent(t) ==
    LET checkpoint == get_checkpoint(DBTrieLoaderNew(t))
    IN checkpoint.account_root # None =>
           /\ unwrap(checkpoint.account_root) \in t.AccountsTrie
           /\ checkpoint.storage_root # None =>
                  /\ checkpoint.hashed_address # None
                  /\ StorageTrieEntry(unwrap(checkpoint.hashed_address),
                                      unwrap(checkpoint.storage_root)) \in t.StoragesTrie

\* C38: whenever the loader has returned InProgress and whenever the
\* transaction is committed, the persisted checkpoint's account_root is the
\* key of a row of AccountsTrie and its storage_root, if present, is the
\* hash of a StoragesTrie entry of its hashed_address; the checkpoint and
\* the nodes are written in one transaction: a step that changes a trie
\* table is a committed loader call that leaves the checkpoint it returned
\* (none after Complete), and a dropped call leaves checkpoint and nodes
\* as they were.
C38_CheckpointCommitsWithNodes ==
    /\ [](SelfConsistent(tables)
          /\ (LoaderReturns("InProgress") => Persisted = progress.ret.checkpoint))
    /\ [][(\/ tables'.AccountsTrie # tables.AccountsTrie
            \/ tables'.StoragesTrie # tables.StoragesTrie
            \/ tables'.SyncStageProgress # tables.SyncStageProgress)
           => /\ progress'.op \in {"calculate_root", "update_root"}
              /\ progress'.ret.kind \in {"Complete", "InProgress"}
              /\ Persisted' = IF progress'.ret.kind = "InProgress"
                              THEN progress'.ret.checkpoint
                              ELSE ProofCheckpointDefault]_vars

\* after an executed transition an update_root call that wrote partial
\* storage nodes and a checkpoint was dropped: no checkpoint is persisted
\* and the only row of AccountsTrie is the root of the last commit
C38_Witness ==
    /\ progress.op = "execute"
    /\ loader.commit_threshold = 1
    /\ Persisted = ProofCheckpointDefault
    /\ tables.AccountsTrie = progress.root
    /\ \E r \in {update_root(new_with_threshold(tables, 1), unwrap(progress.root),
                              TidRange(progress.first_tid, progress.next_tid))} :
           /\ r.ret.kind = "InProgress"
           /\ r.ret.checkpoint.storage_root # None
           /\ r.self.tx.StoragesTrie # tables.StoragesTrie

----------------------------------------------------------------------------
\* Properties of the tree: make_canonical and the database

\* C39: after any make_canonical call, returning Ok or Err, the in-memory
\* canonical window agrees with the database (every number of the window has
\* the same hash as the database's canonical header of that number), and
\* every block the call removed from chains is canonical in the database or
\* back in chains.
C39_WindowAgreesWithDatabase ==
    [][result'.op = "make_canonical" =>
        /\ \A n \in DOMAIN Window' :
               /\ n \in DOMAIN db'.canonical_headers
               /\ db'.canonical_headers[n] = Window'[n]
        /\ \A h \in PendingHashes \ PendingHashes' :
               h \in Range(db'.canonical_headers)]_vars

----------------------------------------------------------------------------
\* Properties of the trie loader: the row of a completed root

\* the ranges update_root is asked for
AskedRanges ==
    {TidRange(start, end) : start \in 1..(MaxTransition + 1), end \in 1..(MaxTransition + 1)}

\* C40: whenever calculate_root or update_root has returned Complete(root),
\* AccountsTrie holds a row keyed by root (the EMPTY_ROOT sentinel for an
\* empty state), so that generate_acount_proof(root, address) for any address
\* and update_root(root, range) for any range do not fail with
\* MissingAccountRoot, also when the completing call resumed from a
\* checkpoint and inserted nothing.
C40_CompletedRootHasRow ==
    LoaderReturns("Complete") =>
        LET root == progress.ret.root
        IN /\ root \in tables.AccountsTrie
           /\ \A address \in HashedAddresses :
                  generate_acount_proof(DBTrieLoaderNew(tables), root, address)
                      # Err("MissingAccountRoot")
           /\ \A tid_range \in AskedRanges :
                  update_root(DBTrieLoaderNew(tables), root, tid_range).ret
                      # Err("MissingAccountRoot")

\* calculate_root over a single account was interrupted after that account
\* and the call that completed it inserted nothing
C40_Witness ==
    /\ Returns("calculate_root", "Complete")
    /\ "account" \in progress.interruptions
    /\ Cardinality(DOMAIN tables.HashedAccount) = 1
    /\ progress.ret.root \in tables.AccountsTrie
====
